---- MODULE Spec2Model ----
(***************************************************************************)
(* plink: a two-party rendezvous server (backend/server.js) and the peer   *)
(* file-transfer hook (frontend/plink/src/hooks/usePeerConnection.js).     *)
(*                                                                         *)
(* The module holds several specifications over one set of variables:      *)
(*   SpecRooms     the coordinator's room table and its socket handlers    *)
(*   SpecTransfer  one sendFile call, the file channel and the receiver    *)
(*   SpecBackpressure  a sendFile call of a file large enough to fill the  *)
(*                 send buffer, the channel's drain, and a silent receiver *)
(***************************************************************************)
EXTENDS Integers, Sequences, FiniteSets, TLC

(***************************************************************************)
(* Bounds of the model.                                                    *)
(***************************************************************************)
\* settings.chunkSize ranges over 1..MaxChunkSize (bytes).
MaxChunkSize == 2
\* file.size ranges over 0..MaxFileSize (bytes) in SpecTransfer.
MaxFileSize == 5
\* In SpecPull the file has 1..MaxPullSize bytes, and the retry timer of one
\* registered request expires at most MaxResends times.
MaxPullSize == 2
MaxResends == 5
\* SpecChunkStore holds rows with the indices 0..MaxStoredIndex.
MaxStoredIndex == 2
\* At most MaxCandidates ice-candidate events and MaxOffers offer events reach
\* a peer in SpecSession.
MaxCandidates == 2
MaxOffers == 2
\* In SpecBackpressure a file has up to MaxExtraChunks chunks more than the
\* BufferChunks chunks that fill the send buffer.
MaxExtraChunks == 2
\* The length in bytes of the JSON text of a file-metadata frame.
MetaLen == 1
MaxOverlapSize == 2
\* In SpecNaming a file name has up to MaxNameLen characters.
MaxNameLen == 5

(***************************************************************************)
(* Values shared by the parts of the model.                                *)
(***************************************************************************)
Null == "null"

\* An empty slot of a JavaScript array.
Hole == "hole"

\* The socket ids (socket.id) of the clients that connect to the coordinator.
Sockets == {"s1", "s2", "s3"}

\* Room names a client can put in roomId; "" is the falsy roomId.
RoomIds == {"alpha", "beta"}
RoomIdInputs == RoomIds \cup {""}

\* Secrets a client can put in password; Absent is a join without the field.
Absent == "undefined"
PasswordInputs == {Absent, "", "x", "y"}

VARIABLES
  rooms,        \* server.js `rooms`: room id -> [exists, users, passwordHash]
  currentRoom,  \* socket.currentRoom of every socket
  connected,    \* FALSE once the socket's disconnect handler has run
  emitted       \* the events the running handler has emitted, in order, until
                \* they are handed to the transport

roomVars == <<rooms, currentRoom, connected, emitted>>

VARIABLES
  settings,        \* the hook's settings: [chunkSize, compression]
  hasPicker,       \* window.showSaveFilePicker exists on the receiver
  readyState,      \* fileChannelRef.current.readyState
  bufferedAmount,  \* the sender's channel.bufferedAmount (bytes)
  lowEvent,        \* a bufferedamountlow event is queued for dispatch
  wire,            \* frames sent by the sender, not yet given to the receiver
  back,            \* frames sent by the receiver, not yet given to the sender
  snd,             \* the sendFile calls: call -> its local variables
  bpWaiters,       \* calls whose trySend listens for bufferedamountlow
  resolvers,       \* keys of transferCompletionResolversRef
  senderMsgs,      \* the sender's user-visible messages and errors, in order
  acksReceived     \* ids of the transfer-complete-ack frames the sender got

senderVars == <<settings, readyState, bufferedAmount, lowEvent, wire, back, snd,
                bpWaiters, resolvers, senderMsgs, acksReceived>>

VARIABLES
  fileMetaKeys,    \* Object.keys(fileMetaRef.current), in insertion order
  fileMeta,        \* fileMetaRef.current
  receivedCount,   \* receivedCountRef.current
  isFinalizing,    \* isFinalizingRef.current
  fileWriter,      \* the keys of fileWriterMapRef.current
  fsFile,          \* the file behind the writable of an id: [data, closed]
  pickerPending,   \* ids whose file-metadata handler awaits showSaveFilePicker
  idbChunks,       \* the "chunks" object store: rows [fileId, index, data]
  idbFiles,        \* the "files" object store: the fileIds with a row
  writes,          \* chunk handlers suspended in their awaited write, in order
  fin,             \* the finalizations in progress
  rcvLog           \* what the receiver has shown, delivered and acknowledged

receiverVars == <<hasPicker, fileMetaKeys, fileMeta, receivedCount, isFinalizing,
                  fileWriter, fsFile, pickerPending, idbChunks, idbFiles, writes,
                  fin, rcvLog>>

xferVars == <<senderVars, receiverVars>>

VARIABLES
  pcState,            \* connectionState of peerConnectionRef.current, "none" without one
  peerConnected,      \* the peerConnected state of the hook
  channelsReady,      \* channelsReadyRef.current: [chat, file]
  chan,               \* readyState of the chat and the file channel, "none" without one
  remoteDescription,  \* peerConnectionRef.current.remoteDescription is set
  pendingIce,         \* pendingIceCandidatesRef.current
  appliedIce,         \* the candidates added to the peer connection, in order
  receivedIce,        \* the candidates of the ice-candidate events, in order
  sigHandlers,        \* offer and answer handlers suspended in an await
  sigSeen             \* the offer and answer events handled so far: [offer, answer]

sessVars == <<pcState, peerConnected, channelsReady, chan, remoteDescription,
              pendingIce, appliedIce, receivedIce, sigHandlers, sigSeen>>

VARIABLES
  currentFileTransfer,   \* the sender's currentFileTransferRef.current
  requestWire,           \* frames sent by the receiver, not yet given to the sender
  chunkWire,             \* frames sent by the sender, not yet given to the receiver
  pullPicker,            \* showSaveFilePicker exists and the user picks a file
  pullFileMeta,          \* fileMetaRef.current[fileId], NoMeta without the key
  pullReceivedCount,     \* receivedCountRef.current[fileId] || 0
  pullIsFinalizing,      \* isFinalizingRef.current[fileId]
  pullFileWriter,        \* fileWriterMapRef.current[fileId] holds a writable
  pullFsFile,            \* the positional writes made to the writable: rows
  pullChunks,            \* the "chunks" object store: rows [fileId, index, data]
  pendingChunkRequests,  \* pendingChunkRequestsRef.current: entries [index, retries]
  pendingChunkMeta,      \* the chunk indices of pendingChunkMetaRef.current
  pullWrites,            \* binary handlers suspended in their write: the index used
  pullFin,               \* a finalization is in its pause
  resent,                \* index -> re-sends by the timer since the request was registered
  pullOut,               \* the files delivered (with the size announced) and the errors shown
  bufferWaits            \* sendRequestedChunk calls paused in waitForBufferLow: the binary of each

pullVars == <<currentFileTransfer, requestWire, chunkWire, pullPicker, pullFileMeta,
              pullReceivedCount, pullIsFinalizing, pullFileWriter, pullFsFile,
              pullChunks, pendingChunkRequests, pendingChunkMeta, pullWrites,
              pullFin, resent, pullOut, bufferWaits>>

vars == <<roomVars, xferVars, sessVars, pullVars>>

\* The chunk indices of a file of SpecPull.
PullIndices == 0..(MaxPullSize - 1)

\* currentFileTransferRef.current = null
NoTransfer == [fileId |-> Null, fileToSend |-> << >>, totalChunks |-> 0]

\* fileMetaRef.current without the key of the file
NoMeta == [type |-> Null, fileId |-> Null, size |-> 0, chunks |-> 0]

\* The pull variant of the App after mount, both channels open.
PullStartWith(picker) ==
  /\ currentFileTransfer = NoTransfer
  /\ requestWire = << >>
  /\ chunkWire = << >>
  /\ pullPicker = picker
  /\ pullFileMeta = NoMeta
  /\ pullReceivedCount = 0
  /\ pullIsFinalizing = FALSE
  /\ pullFileWriter = FALSE
  /\ pullFsFile = {}
  /\ pullChunks = {}
  /\ pendingChunkRequests = {}
  /\ pendingChunkMeta = {}
  /\ pullWrites = << >>
  /\ pullFin = FALSE
  /\ resent = [i \in PullIndices |-> 0]
  /\ pullOut = {}
  /\ bufferWaits = << >>

PullStart == PullStartWith(FALSE)

\* The hook after mount: no peer connection, nothing received.
SessionStart ==
  /\ pcState = "none"
  /\ peerConnected = FALSE
  /\ channelsReady = [chat |-> FALSE, file |-> FALSE]
  /\ chan = [chat |-> "none", file |-> "none"]
  /\ remoteDescription = FALSE
  /\ pendingIce = << >>
  /\ appliedIce = << >>
  /\ receivedIce = << >>
  /\ sigHandlers = {}
  /\ sigSeen = [offer |-> 0, answer |-> 0]

\* The sendFile calls of a run.
Calls == {1}

\* A sendFile call that has not been made.
IdleCall ==
  [pc |-> "idle", size |-> 0, payload |-> << >>, compressed |-> FALSE,
   totalChunks |-> 0, index |-> 0, error |-> Null]

\* The hook of both peers once the file channel is open: no transfer has been
\* started, every ref holds its initial value and both object stores are empty.
TransferStart(chunkSize, compression, picker) ==
  /\ settings = [chunkSize |-> chunkSize, compression |-> compression]
  /\ hasPicker = picker
  /\ readyState = "open"
  /\ bufferedAmount = 0
  /\ lowEvent = FALSE
  /\ wire = << >>
  /\ snd = [c \in Calls |-> IdleCall]
  /\ bpWaiters = {}
  /\ resolvers = {}
  /\ senderMsgs = << >>
  /\ acksReceived = {}
  /\ fileMetaKeys = << >>
  /\ fileMeta = << >>
  /\ receivedCount = << >>
  /\ isFinalizing = << >>
  /\ fileWriter = {}
  /\ fsFile = << >>
  /\ pickerPending = {}
  /\ idbChunks = {}
  /\ idbFiles = {}
  /\ writes = << >>
  /\ fin = {}
  /\ rcvLog = << >>

(***************************************************************************)
(* Rendezvous coordinator: backend/server.js                               *)
(***************************************************************************)

\* A key of `rooms` that is not set.
NoRoom == [exists |-> FALSE, users |-> <<>>, passwordHash |-> Null]

Salt == "plink-static-salt"

\* hashPassword: a falsy password gives null, any other one a digest of
\* password + salt (the digest is modelled as injective).
hashPassword(password) ==
  IF password = Absent \/ password = ""
    THEN Null
    ELSE "sha256(" \o password \o Salt \o ")"

\* Array.prototype.indexOf: the first position of x in seq (1-based), 0 if none.
IndexOf(seq, x) ==
  IF \E i \in 1..Len(seq) : seq[i] = x
    THEN CHOOSE i \in 1..Len(seq) : seq[i] = x /\ \A j \in 1..(i - 1) : seq[j] # x
    ELSE 0

\* Array.prototype.includes
Includes(seq, x) == IndexOf(seq, x) # 0

\* seq.splice(i, 1): seq without its i-th element.
Splice(seq, i) == [j \in 1..(Len(seq) - 1) |-> IF j < i THEN seq[j] ELSE seq[j + 1]]

Emit(to, ev, arg) == [to |-> to, ev |-> ev, arg |-> arg]

\* A leave that keeps the room in the table when its last member has gone.
LeavePreviousRoomKeepsEmpty(rs, s, cur) ==
  IF cur # Null /\ rs[cur].exists
    THEN LET idx   == IndexOf(rs[cur].users, s)
             users == IF idx # 0 THEN Splice(rs[cur].users, idx) ELSE rs[cur].users
         IN  [rs EXCEPT ![cur].users = users]
    ELSE rs

\* join-room, lines 99-118: the socket leaves the room named by
\* socket.currentRoom; the room is deleted when it empties. Nobody is notified.
LeavePreviousRoom(rs, s, cur) ==
  IF cur # Null /\ rs[cur].exists
    THEN LET idx   == IndexOf(rs[cur].users, s)
             users == IF idx # 0 THEN Splice(rs[cur].users, idx) ELSE rs[cur].users
         IN  IF Len(users) = 0
               THEN [rs EXCEPT ![cur] = NoRoom]
               ELSE [rs EXCEPT ![cur].users = users]
    ELSE rs

\* join-room, lines 123-131: a room that does not exist is created with the
\* hash of the password of this join.
CreateRoomIfMissing(rs, roomId, hash) ==
  IF ~rs[roomId].exists
    THEN [rs EXCEPT ![roomId] = [exists |-> TRUE, users |-> <<>>, passwordHash |-> hash]]
    ELSE rs

\* join-room, line 137
PasswordMismatch(room, hash) == room.passwordHash # hash

\* A capacity check that lets a third member in.
RoomIsFullOffByOne(room) == Len(room.users) > 2

\* join-room, line 153
RoomIsFull(room) == Len(room.users) >= 2

\* Pairing events that tell both members that a peer has connected.
JoinEventsNotifyBoth(s, roomId, users) ==
  IF Len(users) = 1
    THEN << Emit(s, "waiting-for-peer", Null),
            Emit(s, "joined-room", <<roomId, 1>>) >>
  ELSE IF Len(users) = 2
    THEN << Emit(users[1], "user-connected", users[2]),
            Emit(users[2], "user-connected", users[1]),
            Emit(users[1], "joined-room", <<roomId, 1>>),
            Emit(users[2], "joined-room", <<roomId, 2>>) >>
  ELSE << >>

\* join-room, lines 170-193: the events emitted after the push.
JoinEvents(s, roomId, users) ==
  IF Len(users) = 1
    THEN << Emit(s, "waiting-for-peer", Null),
            Emit(s, "joined-room", <<roomId, 1>>) >>
  ELSE IF Len(users) = 2
    THEN << Emit(users[1], "user-connected", users[2]),
            Emit(users[1], "joined-room", <<roomId, 1>>),
            Emit(users[2], "joined-room", <<roomId, 2>>) >>
  ELSE << >>

\* The join-room handler as a function of the state: the room table, the
\* socket's currentRoom and the emitted events after it.
JoinResult(rs, cur, s, roomId, password) ==
  IF roomId = ""
    THEN [rooms |-> rs, currentRoom |-> cur,
          emitted |-> << Emit(s, "join-error", "Invalid room name") >>]
    ELSE
      LET hash == hashPassword(password)
          rs1  == LeavePreviousRoom(rs, s, cur)
          rs2  == CreateRoomIfMissing(rs1, roomId, hash)
          room == rs2[roomId]
      IN  IF PasswordMismatch(room, hash)
            THEN [rooms |-> rs2, currentRoom |-> cur,
                  emitted |-> << Emit(s, "join-error", "Invalid password.") >>]
          ELSE IF Includes(room.users, s)
            THEN [rooms |-> rs2, currentRoom |-> cur,
                  emitted |-> << Emit(s, "joined-room", <<roomId, 0>>) >>]
          ELSE IF RoomIsFull(room)
            THEN [rooms |-> rs2, currentRoom |-> cur,
                  emitted |-> << Emit(s, "room-full", Null) >>]
          ELSE
            LET users == Append(room.users, s)
            IN  [rooms |-> [rs2 EXCEPT ![roomId].users = users],
                 currentRoom |-> roomId,
                 emitted |-> JoinEvents(s, roomId, users)]

\* socket.on("join-room")
JoinRoom(s, roomId, password) ==
  /\ connected[s]
  /\ emitted = << >>
  /\ LET r == JoinResult(rooms, currentRoom[s], s, roomId, password)
     IN  /\ rooms' = r.rooms
         /\ currentRoom' = [currentRoom EXCEPT ![s] = r.currentRoom]
         /\ emitted' = r.emitted
  /\ UNCHANGED <<connected, xferVars, sessVars, pullVars>>

\* leave-room lines 272-294 and disconnect lines 305-333: the socket is removed
\* from the room `roomId`, the member left is notified, an empty room is deleted.
RemoveMember(rs, s, roomId) ==
  IF rs[roomId].exists /\ IndexOf(rs[roomId].users, s) # 0
    THEN LET users == Splice(rs[roomId].users, IndexOf(rs[roomId].users, s))
         IN  [rooms |-> IF Len(users) = 0
                          THEN [rs EXCEPT ![roomId] = NoRoom]
                          ELSE [rs EXCEPT ![roomId].users = users],
              emitted |-> IF Len(users) > 0
                            THEN << Emit(users[1], "user-disconnected", s) >>
                            ELSE << >>]
    ELSE [rooms |-> rs, emitted |-> << >>]

\* The value of socket.currentRoom after leave-room (line 297).
CurrentRoomAfterLeave(cur, roomId) == Null

\* socket.on("leave-room")
LeaveRoom(s, roomId) ==
  /\ connected[s]
  /\ emitted = << >>
  /\ IF roomId = ""
       THEN UNCHANGED <<rooms, currentRoom>> /\ emitted' = << >>
       ELSE LET r == RemoveMember(rooms, s, roomId)
            IN  /\ rooms' = r.rooms
                /\ emitted' = r.emitted
                /\ currentRoom' =
                     [currentRoom EXCEPT ![s] = CurrentRoomAfterLeave(currentRoom[s], roomId)]
  /\ UNCHANGED <<connected, xferVars, sessVars, pullVars>>

\* socket.on("disconnect"): the socket takes no further event.
Disconnect(s) ==
  /\ connected[s]
  /\ emitted = << >>
  /\ IF currentRoom[s] # Null
       THEN LET r == RemoveMember(rooms, s, currentRoom[s])
            IN  rooms' = r.rooms /\ emitted' = r.emitted
       ELSE UNCHANGED rooms /\ emitted' = << >>
  /\ connected' = [connected EXCEPT ![s] = FALSE]
  /\ UNCHANGED <<currentRoom, xferVars, sessVars, pullVars>>

\* The events of the handler that has returned leave the process; the next
\* event is handled after that (handlers run one at a time, to completion).
FlushEmitted ==
  /\ emitted # << >>
  /\ emitted' = << >>
  /\ UNCHANGED <<rooms, currentRoom, connected, xferVars, sessVars, pullVars>>

\* The coordinator after start: no room; the sockets are connected.
RoomsStart ==
  /\ rooms = [r \in RoomIds |-> NoRoom]
  /\ currentRoom = [s \in Sockets |-> Null]
  /\ connected = [s \in Sockets |-> TRUE]
  /\ emitted = << >>

InitRooms ==
  RoomsStart /\ TransferStart(1, FALSE, FALSE) /\ back = << >> /\ SessionStart /\ PullStart

NextRooms ==
  \/ \E s \in Sockets, roomId \in RoomIdInputs, password \in PasswordInputs :
       JoinRoom(s, roomId, password)
  \/ \E s \in Sockets, roomId \in RoomIdInputs : LeaveRoom(s, roomId)
  \/ \E s \in Sockets : Disconnect(s)
  \/ FlushEmitted

SpecRooms == InitRooms /\ [][NextRooms]_vars


(***************************************************************************)
(* SpecRelay: the coordinator with its signaling handlers (offer, answer,  *)
(* ice-candidate); the clients join without a secret, as the hook does.    *)
(***************************************************************************)
SignalEvents == {"offer", "answer", "ice-candidate"}

\* offer / answer / ice-candidate, lines 202-266: an event without roomId, an
\* offer or answer without its payload, and an event for a room that does not
\* exist are dropped; any other one is emitted to every member of the room
\* named by roomId other than the caller.
RelayEvents(rs, s, ev, roomId, hasPayload) ==
  IF roomId = "" \/ (ev \in {"offer", "answer"} /\ ~hasPayload)
    THEN << >>
  ELSE IF ~rs[roomId].exists
    THEN << >>
  ELSE LET others == SelectSeq(rs[roomId].users, LAMBDA u : u # s)
       IN  [i \in 1..Len(others) |->
              Emit(others[i], ev, IF hasPayload THEN "payload" ELSE Null)]

\* socket.on("offer"), socket.on("answer"), socket.on("ice-candidate")
Relay(s, ev, roomId, hasPayload) ==
  /\ connected[s]
  /\ emitted = << >>
  /\ emitted' = RelayEvents(rooms, s, ev, roomId, hasPayload)
  /\ UNCHANGED <<rooms, currentRoom, connected, xferVars, sessVars, pullVars>>

InitRelay ==
  RoomsStart /\ TransferStart(1, FALSE, FALSE) /\ back = << >> /\ SessionStart /\ PullStart

NextRelay ==
  \/ \E s \in Sockets, roomId \in RoomIdInputs : JoinRoom(s, roomId, Absent)
  \/ \E s \in Sockets, roomId \in RoomIdInputs : LeaveRoom(s, roomId)
  \/ \E s \in Sockets : Disconnect(s)
  \/ \E s \in Sockets, ev \in SignalEvents, roomId \in RoomIdInputs, hasPayload \in BOOLEAN :
       Relay(s, ev, roomId, hasPayload)
  \/ FlushEmitted

SpecRelay == InitRelay /\ [][NextRelay]_vars

(***************************************************************************)
(* Session of one peer: createPeerConnection, the connection and channel   *)
(* events, and the offer / answer / ice-candidate handlers of the hook.    *)
(***************************************************************************)
Channels == {"chat", "file"}

\* createPeerConnection, lines 391-400 (no peer connection exists yet): the
\* flags are reset and a new RTCPeerConnection is stored. The offerer creates
\* both data channels (lines 442-446); the other side gets them later from
\* ondatachannel.
CreatePeerConnection(isOfferer) ==
  /\ pcState' = "new"
  /\ channelsReady' = [chat |-> FALSE, file |-> FALSE]
  /\ chan' = IF isOfferer THEN [chat |-> "connecting", file |-> "connecting"]
                          ELSE [chat |-> "none", file |-> "none"]
  /\ remoteDescription' = FALSE

\* socket.on("user-connected"), lines 661-666; the offer is created and sent.
UserConnected ==
  /\ pcState = "none"
  /\ CreatePeerConnection(TRUE)
  /\ UNCHANGED <<peerConnected, pendingIce, appliedIce, receivedIce, sigHandlers, sigSeen>>
  /\ UNCHANGED <<roomVars, xferVars, pullVars>>

\* The transitions of RTCPeerConnection.connectionState.
NextConnectionStates(state) ==
  CASE state = "new" -> {"connecting"}
    [] state = "connecting" -> {"connected", "failed"}
    [] state = "connected" -> {"disconnected", "failed"}
    [] state = "disconnected" -> {"connected", "failed"}
    [] OTHER -> {}

\* pc.onconnectionstatechange, lines 414-431. The handler closes nothing.
\* A connection fails when an ICE or a DTLS transport fails: with the DTLS
\* transport the platform closes the data channels (channelsClose), with the
\* ICE transport alone it leaves them as they are.
ConnectionStateChange(state, channelsClose) ==
  /\ state \in NextConnectionStates(pcState)
  /\ channelsClose => state = "failed"
  /\ pcState' = state
  /\ IF state = "connected"
       THEN peerConnected' = TRUE /\ UNCHANGED <<channelsReady, chan>>
     ELSE IF state \in {"disconnected", "failed", "closed"}
       THEN /\ peerConnected' = FALSE
            /\ channelsReady' = [chat |-> FALSE, file |-> FALSE]
            /\ chan' = IF channelsClose
                         THEN [ch \in Channels |->
                                 IF chan[ch] = "none" THEN "none" ELSE "closed"]
                         ELSE chan
       ELSE UNCHANGED <<peerConnected, channelsReady, chan>>
  /\ UNCHANGED <<remoteDescription, pendingIce, appliedIce, receivedIce, sigHandlers, sigSeen>>
  /\ UNCHANGED <<roomVars, xferVars, pullVars>>

\* pc.ondatachannel, lines 457-464: the side that did not create the channels
\* gets a channel of the connected transport and sets it up.
DataChannel(ch) ==
  /\ pcState = "connected"
  /\ chan[ch] = "none"
  /\ chan' = [chan EXCEPT ![ch] = "connecting"]
  /\ UNCHANGED <<pcState, peerConnected, channelsReady, remoteDescription, pendingIce,
                 appliedIce, receivedIce, sigHandlers, sigSeen>>
  /\ UNCHANGED <<roomVars, xferVars, pullVars>>

\* channel.onopen, lines 129-136 and 366-370
ChannelOpen(ch) ==
  /\ pcState = "connected"
  /\ chan[ch] = "connecting"
  /\ chan' = [chan EXCEPT ![ch] = "open"]
  /\ channelsReady' = [channelsReady EXCEPT ![ch] = TRUE]
  /\ UNCHANGED <<pcState, peerConnected, remoteDescription, pendingIce, appliedIce,
                 receivedIce, sigHandlers, sigSeen>>
  /\ UNCHANGED <<roomVars, xferVars, pullVars>>

\* channel.onclose, lines 138-141 and 381: one channel closes, the transport
\* stays as it is.
ChannelCloses(ch) ==
  /\ chan[ch] = "open"
  /\ chan' = [chan EXCEPT ![ch] = "closed"]
  /\ channelsReady' = [channelsReady EXCEPT ![ch] = FALSE]
  /\ UNCHANGED <<pcState, peerConnected, remoteDescription, pendingIce, appliedIce,
                 receivedIce, sigHandlers, sigSeen>>
  /\ UNCHANGED <<roomVars, xferVars, pullVars>>

\* socket.on("offer"), lines 667-674: the peer connection is created when
\* there is none, and the handler suspends in setRemoteDescription.
OfferArrives ==
  /\ sigSeen.offer < MaxOffers
  /\ sigSeen' = [sigSeen EXCEPT !.offer = @ + 1]
  /\ IF pcState = "none"
       THEN CreatePeerConnection(FALSE)
       ELSE UNCHANGED <<pcState, channelsReady, chan, remoteDescription>>
  /\ sigHandlers' = sigHandlers \cup
       {[kind |-> "offer", n |-> sigSeen.offer + 1, stage |-> "setRemoteDescription",
         arr |-> << >>, pos |-> 0]}
  /\ UNCHANGED <<peerConnected, pendingIce, appliedIce, receivedIce>>
  /\ UNCHANGED <<roomVars, xferVars, pullVars>>

\* socket.on("answer"), lines 687-692: with a peer connection the handler
\* suspends in setRemoteDescription; the one answer to the offer of this peer.
AnswerArrives ==
  /\ sigSeen.answer = 0
  /\ sigSeen.offer = 0
  /\ pcState # "none"
  /\ sigSeen' = [sigSeen EXCEPT !.answer = 1]
  /\ sigHandlers' = sigHandlers \cup
       {[kind |-> "answer", n |-> 1, stage |-> "setRemoteDescription",
         arr |-> << >>, pos |-> 0]}
  /\ UNCHANGED <<pcState, peerConnected, channelsReady, chan, remoteDescription,
                 pendingIce, appliedIce, receivedIce>>
  /\ UNCHANGED <<roomVars, xferVars, pullVars>>

\* Lines 674-682 and 690-698: setRemoteDescription resolves and the for-of
\* loop over pendingIceCandidatesRef.current starts; over an empty array it
\* ends at once and the handler leaves the loop.
RemoteDescriptionSet(h) ==
  /\ h \in sigHandlers
  /\ h.stage = "setRemoteDescription"
  /\ remoteDescription' = TRUE
  /\ sigHandlers' = IF pendingIce = << >>
                      THEN sigHandlers \ {h}
                      ELSE (sigHandlers \ {h}) \cup
                             {[h EXCEPT !.stage = "flush", !.arr = pendingIce, !.pos = 1]}
  /\ UNCHANGED <<pcState, peerConnected, channelsReady, chan, pendingIce, appliedIce,
                 receivedIce, sigSeen>>
  /\ UNCHANGED <<roomVars, xferVars, pullVars>>

\* Lines 677-682 and 693-698: addIceCandidate of the candidate at the loop
\* position settles. A candidate that the connection refuses rejects, and the
\* handler, which has no catch, ends there; after the last candidate the
\* buffer is replaced by an empty array.
FlushStep(h) ==
  /\ h \in sigHandlers
  /\ h.stage = "flush"
  /\ LET candidate == h.arr[h.pos]
     IN  IF ~candidate.valid
           THEN /\ sigHandlers' = sigHandlers \ {h}
                /\ UNCHANGED <<appliedIce, pendingIce>>
           ELSE /\ appliedIce' = Append(appliedIce, candidate)
                /\ IF h.pos = Len(h.arr)
                     THEN /\ pendingIce' = << >>
                          /\ sigHandlers' = sigHandlers \ {h}
                     ELSE /\ sigHandlers' = (sigHandlers \ {h}) \cup {[h EXCEPT !.pos = @ + 1]}
                          /\ UNCHANGED pendingIce
  /\ UNCHANGED <<pcState, peerConnected, channelsReady, chan, remoteDescription,
                 receivedIce, sigSeen>>
  /\ UNCHANGED <<roomVars, xferVars, pullVars>>

\* socket.on("ice-candidate"), lines 701-714, for the next candidate of the
\* remote peer, which the connection accepts (valid) or refuses: with a remote
\* description it is added at once (a rejection is caught and logged), without
\* one it is pushed on the buffer.
IceCandidateArrives(valid) ==
  /\ Len(receivedIce) < MaxCandidates
  /\ LET candidate == [id |-> Len(receivedIce) + 1, valid |-> valid]
     IN  /\ receivedIce' = Append(receivedIce, candidate)
         /\ IF pcState # "none" /\ remoteDescription
              THEN /\ appliedIce' = IF valid THEN Append(appliedIce, candidate) ELSE appliedIce
                   /\ UNCHANGED pendingIce
              ELSE /\ pendingIce' = Append(pendingIce, candidate)
                   /\ UNCHANGED appliedIce
  /\ UNCHANGED <<pcState, peerConnected, channelsReady, chan, remoteDescription,
                 sigHandlers, sigSeen>>
  /\ UNCHANGED <<roomVars, xferVars, pullVars>>

InitSession ==
  /\ RoomsStart
  /\ TransferStart(1, FALSE, FALSE)
  /\ back = << >>
  /\ SessionStart
  /\ PullStart

NextSession ==
  \/ UserConnected
  \/ \E state \in {"connecting", "connected", "disconnected", "failed"},
        channelsClose \in BOOLEAN :
       ConnectionStateChange(state, channelsClose)
  \/ \E ch \in Channels : DataChannel(ch)
  \/ \E ch \in Channels : ChannelOpen(ch)
  \/ \E ch \in Channels : ChannelCloses(ch)
  \/ OfferArrives
  \/ AnswerArrives
  \/ \E h \in sigHandlers : RemoteDescriptionSet(h)
  \/ \E h \in sigHandlers : FlushStep(h)
  \/ \E valid \in BOOLEAN : IceCandidateArrives(valid)

SpecSession == InitSession /\ [][NextSession]_vars

(***************************************************************************)
(* Sender: sendFile, sendWithBackpressure, waitForAck                      *)
(* frontend/plink/src/hooks/usePeerConnection.js                           *)
(***************************************************************************)

\* sendWithBackpressure, line 98: maxBuffer = settings.chunkSize * 16
BufferChunks == 16

\* createPeerConnection, lines 445 and 461:
\* bufferedAmountLowThreshold = settings.chunkSize * 4
LowThresholdChunks == 4

\* The bytes of a file of n bytes; the byte at offset i - 1 is i, so that a
\* lost, repeated or misplaced byte shows.
Bytes(n) == [i \in 1..n |-> i]

\* A chunk count that leaves out the last, partial chunk.
CeilAsFloor(a, b) == a \div b

\* Math.ceil(a / b) for a >= 0, b >= 1
Ceil(a, b) == (a + b - 1) \div b

Min(a, b) == IF a <= b THEN a ELSE b

\* A slice that always starts at the first byte.
SliceFromStart(s, start, end) == SubSeq(s, 1, Min(end - start, Len(s)))

\* Blob.slice(start, end) with 0-based offsets, end clamped to the size.
Slice(s, start, end) == SubSeq(s, start + 1, Min(end, Len(s)))

\* pako.deflate: the stream is a header that tells the length of the input,
\* followed by the input; its size differs from the size of the input.
Deflate(s) == <<0, Len(s)>> \o s

\* pako.inflate throws on a stream that is not a whole deflate stream.
InflateThrows(d) == ~(Len(d) >= 2 /\ d[1] = 0 /\ d[2] = Len(d) - 2)

Inflate(d) == SubSeq(d, 3, Len(d))

\* `${Date.now()}-${file.name}`: one id per call.
FileId(c) == c

\* The id of a transfer of an earlier sendFile call, whose wait for the
\* acknowledgment has ended.
StaleId == 0

MetadataFrame(c, call) ==
  [type |-> "file-metadata", fileId |-> FileId(c), size |-> call.size,
   chunks |-> call.totalChunks, compressed |-> call.compressed,
   compressedSize |-> Len(call.payload)]

ChunkFrame(data) == [type |-> "chunk", data |-> data]

AckFrame(id) == [type |-> "transfer-complete-ack", fileId |-> id]

\* A catch block that swallows the error and leaves the call waiting.
FailedSilently(call, message) == call

\* catch (e) of sendFile, lines 612-618: the error is shown and the resolver
\* of the call is deleted.
Failed(call, message) == [call EXCEPT !.pc = "failed", !.error = message]

\* A high-water test that lets the buffer reach the mark before it suspends.
BufferHasRoomInclusive(amount, chunkSize) == amount <= chunkSize * BufferChunks

\* sendWithBackpressure, lines 98-99
BufferHasRoom(amount, chunkSize) == amount < chunkSize * BufferChunks

\* sendFile, lines 532-562: the chunk count is computed, the metadata frame is
\* sent with channel.send (which throws on a channel that is not open) and the
\* loop starts at index 0.
SendMetadata(c, call) ==
  LET m == [call EXCEPT !.totalChunks = Ceil(Len(call.payload), settings.chunkSize),
                        !.index = 0]
  IN  IF readyState = "open"
        THEN /\ wire' = Append(wire, MetadataFrame(c, m))
             /\ bufferedAmount' = bufferedAmount + MetaLen
             /\ snd' = [snd EXCEPT ![c] = [m EXCEPT !.pc = "loop"]]
        ELSE /\ snd' = [snd EXCEPT ![c] = Failed(m, "InvalidStateError")]
             /\ UNCHANGED <<wire, bufferedAmount>>

\* sendFile(file), lines 497-530, for a file of `size` bytes that is a zip
\* archive or not. Without compression the call runs on to the metadata; with
\* compression it suspends in file.arrayBuffer().
SendFile(c, size, isZip) ==
  /\ snd[c].pc = "idle"
  /\ IF readyState # "open"
       THEN /\ snd' = [snd EXCEPT ![c] =
                        [@ EXCEPT !.pc = "rejected",
                                  !.error = "File channel not ready for transfer."]]
            /\ UNCHANGED <<wire, bufferedAmount, senderMsgs>>
     ELSE IF settings.compression /\ ~isZip
       THEN /\ snd' = [snd EXCEPT ![c] =
                        [@ EXCEPT !.pc = "compressing", !.size = size,
                                  !.payload = Bytes(size)]]
            /\ senderMsgs' = Append(senderMsgs, [text |-> "Compressing file...", call |-> c])
            /\ UNCHANGED <<wire, bufferedAmount>>
     ELSE /\ SendMetadata(c, [snd[c] EXCEPT !.size = size, !.payload = Bytes(size)])
          /\ UNCHANGED senderMsgs
  /\ UNCHANGED <<settings, readyState, lowEvent, back, bpWaiters, resolvers, acksReceived>>
  /\ UNCHANGED <<roomVars, sessVars, pullVars, receiverVars>>

\* A sendFile that goes on with the deflated payload although pako threw.
CompressedIgnoresThrow(c, throws) ==
  /\ snd[c].pc = "compressing"
  /\ SendMetadata(c, [snd[c] EXCEPT !.payload = Deflate(snd[c].payload),
                                    !.compressed = TRUE])
  /\ UNCHANGED <<settings, readyState, lowEvent, back, bpWaiters, resolvers,
                 senderMsgs, acksReceived>>
  /\ UNCHANGED <<roomVars, sessVars, pullVars, receiverVars>>

\* sendFile, lines 517-530: the compression ends; when it throws the file is
\* sent as it is.
Compressed(c, throws) ==
  /\ snd[c].pc = "compressing"
  /\ SendMetadata(c, IF throws
                       THEN snd[c]
                       ELSE [snd[c] EXCEPT !.payload = Deflate(snd[c].payload),
                                           !.compressed = TRUE])
  /\ UNCHANGED <<settings, readyState, lowEvent, back, bpWaiters, resolvers,
                 senderMsgs, acksReceived>>
  /\ UNCHANGED <<roomVars, sessVars, pullVars, receiverVars>>

\* sendFile, lines 565-571 and 584-596: the head of the loop. With chunks left
\* the channel is tested and the slice is read; after the last chunk the
\* "Waiting for confirmation..." message is shown and waitForAck registers
\* the resolver of the call.
LoopStep(c) ==
  /\ snd[c].pc = "loop"
  /\ IF snd[c].index < snd[c].totalChunks
       THEN /\ snd' = [snd EXCEPT ![c] =
                        IF readyState # "open"
                          THEN Failed(@, "File channel closed during transfer")
                          ELSE [@ EXCEPT !.pc = "slice"]]
            /\ UNCHANGED <<senderMsgs, resolvers>>
       ELSE /\ senderMsgs' = Append(senderMsgs,
                               [text |-> "Sent. Waiting for confirmation...", call |-> c])
            /\ resolvers' = resolvers \cup {FileId(c)}
            /\ snd' = [snd EXCEPT ![c].pc = "waitAck"]
  /\ UNCHANGED <<settings, readyState, bufferedAmount, lowEvent, wire, back,
                 bpWaiters, acksReceived>>
  /\ UNCHANGED <<roomVars, sessVars, pullVars, receiverVars>>

\* A sendFile call is between the resolution of an await and its next await
\* (lines 572-598 hold no real suspension after the send resolves): this
\* continuation runs as a microtask, before the next message, timer or
\* bufferedamountlow task of the sender's page.
InContinuation == \E c \in Calls : snd[c].pc = "loop"

\* trySend, lines 93-112, for the chunk at snd[c].index.
TrySendBody(c) ==
  LET call == snd[c]
      data == Slice(call.payload, call.index * settings.chunkSize,
                    call.index * settings.chunkSize + settings.chunkSize)
  IN  IF readyState # "open"
        THEN /\ snd' = [snd EXCEPT ![c] = Failed(call, "Data channel is not open.")]
             /\ bpWaiters' = bpWaiters \ {c}
             /\ UNCHANGED <<wire, bufferedAmount>>
      ELSE IF BufferHasRoom(bufferedAmount, settings.chunkSize)
        THEN /\ wire' = Append(wire, ChunkFrame(data))
             /\ bufferedAmount' = bufferedAmount + Len(data)
             /\ snd' = [snd EXCEPT ![c] = [call EXCEPT !.pc = "loop", !.index = @ + 1]]
             /\ bpWaiters' = bpWaiters \ {c}
      ELSE /\ snd' = [snd EXCEPT ![c].pc = "bp"]
           /\ bpWaiters' = bpWaiters \cup {c}
           /\ UNCHANGED <<wire, bufferedAmount>>

\* sendFile, line 572: sendWithBackpressure is called with the slice.
TrySend(c) ==
  /\ snd[c].pc = "slice"
  /\ TrySendBody(c)
  /\ UNCHANGED <<settings, readyState, lowEvent, back, resolvers, senderMsgs, acksReceived>>
  /\ UNCHANGED <<roomVars, sessVars, pullVars, receiverVars>>

\* The bufferedamountlow event is dispatched: the listener added at line 108
\* (once) runs trySend again.
BufferedAmountLow ==
  /\ ~InContinuation
  /\ lowEvent
  /\ lowEvent' = FALSE
  /\ IF bpWaiters = {}
       THEN UNCHANGED <<snd, bpWaiters, wire, bufferedAmount>>
       ELSE \E c \in bpWaiters : TrySendBody(c)
  /\ UNCHANGED <<settings, readyState, back, resolvers, senderMsgs, acksReceived>>
  /\ UNCHANGED <<roomVars, sessVars, pullVars, receiverVars>>

\* The transport takes n bytes out of the send buffer of the open channel;
\* bufferedamountlow is queued when the amount falls to the threshold from
\* above it.
Drain(n) ==
  /\ readyState = "open"
  /\ n \in 1..bufferedAmount
  /\ bufferedAmount' = bufferedAmount - n
  /\ lowEvent' = (lowEvent \/ (/\ bufferedAmount > settings.chunkSize * LowThresholdChunks
                               /\ bufferedAmount' <= settings.chunkSize * LowThresholdChunks))
  /\ UNCHANGED <<settings, readyState, wire, back, snd, bpWaiters, resolvers,
                 senderMsgs, acksReceived>>
  /\ UNCHANGED <<roomVars, sessVars, pullVars, receiverVars>>

\* setMessages of lines 599-611: the first message that contains
\* "Waiting for confirmation..." is replaced by "Transfer completed".
ReplaceFirstWaiting(msgs, c) ==
  LET waiting == {i \in 1..Len(msgs) : msgs[i].text = "Sent. Waiting for confirmation..."}
  IN  IF waiting = {}
        THEN msgs
        ELSE LET first == CHOOSE i \in waiting : \A j \in waiting : i <= j
             IN  [msgs EXCEPT ![first] = [text |-> "Transfer completed", call |-> c]]

\* An acknowledgment that resolves whatever call is waiting.
ResolvedByAnyAck(id, keys) == keys

\* onmessage, lines 195-201: the keys of the resolver map that the
\* acknowledgment with this id resolves and deletes.
ResolvedByAck(id, keys) == IF id \in keys THEN {id} ELSE {}

RECURSIVE CompleteAll(_, _)
CompleteAll(msgs, cs) ==
  IF cs = {} THEN msgs
  ELSE LET c == CHOOSE x \in cs : \A y \in cs : x <= y
       IN  CompleteAll(ReplaceFirstWaiting(msgs, c), cs \ {c})

\* onmessage of the sender for a transfer-complete-ack frame, and the
\* continuation of the sendFile whose waitForAck it resolves (lines 598-611, 617).
ReceiveAck ==
  /\ ~InContinuation
  /\ back # << >>
  /\ Head(back).type = "transfer-complete-ack"
  /\ LET id       == Head(back).fileId
         resolved == ResolvedByAck(id, resolvers)
         done     == {c \in Calls : snd[c].pc = "waitAck" /\ FileId(c) \in resolved}
     IN  /\ acksReceived' = acksReceived \cup {id}
         /\ resolvers' = resolvers \ resolved
         /\ snd' = [c \in Calls |-> IF c \in done THEN [snd[c] EXCEPT !.pc = "completed"]
                                                   ELSE snd[c]]
         /\ senderMsgs' = CompleteAll(senderMsgs, done)
  /\ back' = Tail(back)
  /\ UNCHANGED <<settings, readyState, bufferedAmount, lowEvent, wire, bpWaiters>>
  /\ UNCHANGED <<roomVars, sessVars, pullVars, receiverVars>>

\* waitForAck, lines 57-62: the 45 s timer of the call fires while its resolver
\* is still registered.
AckTimeout(c) ==
  /\ ~InContinuation
  /\ snd[c].pc = "waitAck"
  /\ FileId(c) \in resolvers
  /\ resolvers' = resolvers \ {FileId(c)}
  /\ snd' = [snd EXCEPT ![c] = Failed(@, "ACK timeout")]
  /\ UNCHANGED <<settings, readyState, bufferedAmount, lowEvent, wire, back,
                 bpWaiters, senderMsgs, acksReceived>>
  /\ UNCHANGED <<roomVars, sessVars, pullVars, receiverVars>>

\* The file channel closes (channel.onclose, lines 138-141, sets a flag only):
\* the frames in flight in both directions are lost, the amount buffered
\* stays as it is and no bufferedamountlow is queued any more.
ChannelClose ==
  /\ readyState = "open"
  /\ readyState' = "closed"
  /\ wire' = << >>
  /\ back' = << >>
  /\ UNCHANGED <<settings, bufferedAmount, lowEvent, snd, bpWaiters, resolvers,
                 senderMsgs, acksReceived>>
  /\ UNCHANGED <<roomVars, sessVars, pullVars, receiverVars>>

(***************************************************************************)
(* SpecBackpressure: the sender with files that fill the send buffer, the  *)
(* transport draining it, and a receiver that never acknowledges.          *)
(***************************************************************************)
\* Sizes from one byte less than the BufferChunks chunks of the high-water
\* mark up to MaxExtraChunks chunks more.
LargeSizes(chunkSize) ==
  (BufferChunks * chunkSize - 1)..((BufferChunks + MaxExtraChunks) * chunkSize)

InitBackpressure ==
  /\ RoomsStart
  /\ SessionStart
  /\ PullStart
  /\ \E chunkSize \in 1..MaxChunkSize : TransferStart(chunkSize, FALSE, FALSE)
  /\ back = << >>

NextBackpressure ==
  \/ \E c \in Calls, size \in LargeSizes(settings.chunkSize) : SendFile(c, size, FALSE)
  \/ \E c \in Calls : LoopStep(c)
  \/ \E c \in Calls : TrySend(c)
  \/ \E n \in 1..bufferedAmount : Drain(n)
  \/ BufferedAmountLow
  \/ \E c \in Calls : AckTimeout(c)
  \/ ChannelClose

SpecBackpressure == InitBackpressure /\ [][NextBackpressure]_vars

\* The sender's steps, the transport and the timer are not held back forever.
FairSpecBackpressure ==
  /\ SpecBackpressure
  /\ \A c \in Calls : WF_vars(LoopStep(c)) /\ WF_vars(TrySend(c)) /\ WF_vars(AckTimeout(c))
  /\ WF_vars(\E n \in 1..bufferedAmount : Drain(n))
  /\ WF_vars(BufferedAmountLow)

(***************************************************************************)
(* Receiver: channel.onmessage of the file channel, and the IndexedDB      *)
(* service (src/services/indexedDB.js)                                     *)
(***************************************************************************)

\* The bytes a frame takes in the send buffer.
FrameLen(f) == IF f.type = "chunk" THEN Len(f.data) ELSE MetaLen

\* The frame at the head of the wire reaches the receiver and leaves the
\* send buffer of the sender.
Delivered ==
  /\ wire' = Tail(wire)
  /\ bufferedAmount' = IF bufferedAmount >= FrameLen(Head(wire))
                         THEN bufferedAmount - FrameLen(Head(wire))
                         ELSE 0

\* obj[key] = value on one of the refs that map a file id to a value.
Put(map, key, value) == [k \in DOMAIN map \cup {key} |-> IF k = key THEN value ELSE map[k]]

\* delete obj[key]
Delete(map, key) == [k \in DOMAIN map \ {key} |-> map[k]]

\* Object.keys after obj[key] = value: a new key goes last.
KeysAfterPut(keys, key) == IF Includes(keys, key) THEN keys ELSE Append(keys, key)

\* Object.keys after delete obj[key]
KeysAfterDelete(keys, key) == SelectSeq(keys, LAMBDA k : k # key)

\* onmessage for a file-metadata frame, lines 151-191: the refs of the
\* transfer are initialised; with showSaveFilePicker the handler suspends in
\* the picker, without it the metadata row is saved.
ReceiveMetadata ==
  /\ wire # << >>
  /\ Head(wire).type = "file-metadata"
  /\ Delivered
  /\ LET meta == Head(wire)
         id   == meta.fileId
     IN  /\ fileMeta' = Put(fileMeta, id, meta)
         /\ fileMetaKeys' = KeysAfterPut(fileMetaKeys, id)
         /\ receivedCount' = Put(receivedCount, id, 0)
         /\ isFinalizing' = Put(isFinalizing, id, FALSE)
         /\ IF hasPicker
              THEN pickerPending' = pickerPending \cup {id} /\ UNCHANGED idbFiles
              ELSE idbFiles' = idbFiles \cup {id} /\ UNCHANGED pickerPending
  /\ UNCHANGED <<hasPicker, fileWriter, fsFile, idbChunks, writes, fin, rcvLog>>
  /\ UNCHANGED <<settings, readyState, lowEvent, back, snd, bpWaiters, resolvers,
                 senderMsgs, acksReceived>>
  /\ UNCHANGED <<roomVars, sessVars, pullVars>>

\* Lines 182-191: showSaveFilePicker settles. When the user has chosen a file
\* its writable is stored in fileWriterMapRef; when the picker was cancelled
\* or refused nothing is stored. The metadata row is saved after either.
PickerSettles(id, chosen) ==
  /\ id \in pickerPending
  /\ pickerPending' = pickerPending \ {id}
  /\ IF chosen
       THEN /\ fileWriter' = fileWriter \cup {id}
            /\ fsFile' = Put(fsFile, id, [data |-> << >>, closed |-> FALSE])
       ELSE UNCHANGED <<fileWriter, fsFile>>
  /\ idbFiles' = idbFiles \cup {id}
  /\ UNCHANGED <<hasPicker, fileMetaKeys, fileMeta, receivedCount, isFinalizing,
                 idbChunks, writes, fin, rcvLog>>
  /\ UNCHANGED <<roomVars, sessVars, pullVars, senderVars>>

\* onmessage for a binary frame, lines 205-220: the chunk belongs to the first
\* key of fileMetaRef and gets the index receivedCount has; the handler
\* suspends in the write to the writable of the transfer, or to the chunk
\* store when there is none.
ReceiveChunk ==
  /\ wire # << >>
  /\ Head(wire).type = "chunk"
  /\ Delivered
  /\ IF fileMetaKeys = << >>
       THEN UNCHANGED <<receivedCount, writes>>
       ELSE LET id == fileMetaKeys[1]
            IN  /\ receivedCount' = [receivedCount EXCEPT ![id] = @ + 1]
                /\ writes' = Append(writes,
                               [fileId |-> id,
                                meta |-> fileMeta[id],
                                index |-> receivedCount[id],
                                receivedChunks |-> receivedCount[id] + 1,
                                fw |-> id \in fileWriter,
                                data |-> Head(wire).data])
  /\ UNCHANGED <<hasPicker, fileMetaKeys, fileMeta, isFinalizing, fileWriter, fsFile,
                 pickerPending, idbChunks, idbFiles, fin, rcvLog>>
  /\ UNCHANGED <<settings, readyState, lowEvent, back, snd, bpWaiters, resolvers,
                 senderMsgs, acksReceived>>
  /\ UNCHANGED <<roomVars, sessVars, pullVars>>

\* storeChunkIndexedDB: put of a row with the key [fileId, index].
StoreChunk(store, id, index, data) ==
  {r \in store : ~(r.fileId = id /\ r.index = index)}
    \cup {[fileId |-> id, index |-> index, data |-> data]}

\* isFinalizingRef.current[id], undefined (falsy) when the key is deleted.
IsFinalizing(id) == id \in DOMAIN isFinalizing /\ isFinalizing[id]

\* Two suspended writes go to the same sink: the chunk store, or the writable
\* of one transfer.
SameSink(a, b) == a.fw = b.fw /\ (a.fw => a.fileId = b.fileId)

\* The positions a suspended write can have in `writes`.
WriteSlots == 1..MaxFileSize

\* Lines 215-246: the write awaited by the k-th suspended chunk handler
\* completes; the writes of one sink complete in the order they were issued,
\* those of the chunk store and of a writable in any order.  A write to a
\* closed writable throws into the catch of line 350. The handler that sees
\* all chunks received, and no finalization running, starts the finalization.
WriteDone(k) ==
  /\ k \in 1..Len(writes)
  /\ \A j \in 1..(k - 1) : ~SameSink(writes[j], writes[k])
  /\ LET w  == writes[k]
         id == w.fileId
     IN  /\ writes' = SubSeq(writes, 1, k - 1) \o SubSeq(writes, k + 1, Len(writes))
         /\ IF w.fw /\ fsFile[id].closed
              THEN /\ rcvLog' = Append(rcvLog, [kind |-> "receive-error", fileId |-> id])
                   /\ UNCHANGED <<fsFile, idbChunks, isFinalizing, fin>>
              ELSE /\ IF w.fw
                        THEN /\ fsFile' = [fsFile EXCEPT ![id].data = @ \o w.data]
                             /\ UNCHANGED idbChunks
                        ELSE /\ idbChunks' = StoreChunk(idbChunks, id, w.index, w.data)
                             /\ UNCHANGED fsFile
                   /\ IF w.receivedChunks >= w.meta.chunks /\ ~IsFinalizing(id)
                        THEN /\ isFinalizing' = Put(isFinalizing, id, TRUE)
                             /\ fin' = fin \cup {[fileId |-> id, meta |-> w.meta,
                                                  receivedChunks |-> w.receivedChunks,
                                                  fw |-> w.fw, stage |-> "sink"]}
                        ELSE UNCHANGED <<isFinalizing, fin>>
                   /\ UNCHANGED rcvLog
  /\ UNCHANGED <<hasPicker, fileMetaKeys, fileMeta, receivedCount, fileWriter,
                 pickerPending, idbFiles>>
  /\ UNCHANGED <<roomVars, sessVars, pullVars, senderVars>>

RECURSIVE ConcatByIndex(_)
\* The data of a set of rows of one file, joined in ascending order of index.
ConcatByIndex(rows) ==
  IF rows = {} THEN << >>
  ELSE LET r == CHOOSE x \in rows : \A y \in rows : x.index <= y.index
       IN  r.data \o ConcatByIndex(rows \ {r})

\* The rows of the chunk store for a file.
RowsOf(store, id) == {r \in store : r.fileId = id}

\* The array that the cursor loop of readAllChunksIndexedDB fills
\* (chunks[cursor.value.index] = cursor.value.data): its length is the
\* greatest index stored plus one, and an index without a row is a hole.
\* Position i + 1 of the sequence is index i of the array.
ChunksByIndex(store, id) ==
  LET rows == RowsOf(store, id)
      len  == IF rows = {} THEN 0
              ELSE 1 + (CHOOSE n \in {r.index : r \in rows} :
                          \A r \in rows : r.index <= n)
  IN  [i \in 1..len |->
         IF \E r \in rows : r.index = i - 1
           THEN (CHOOSE r \in rows : r.index = i - 1).data
           ELSE Hole]

\* readAllChunksIndexedDB of src/services/indexedDB.js, lines 67-92: the array
\* is resolved through chunks.filter((c) => c), which drops the holes.
readAllChunksIndexedDB(store, id) ==
  SelectSeq(ChunksByIndex(store, id), LAMBDA c : c # Hole)

RECURSIVE Flatten(_)
\* new Blob(chunksArr): the chunks joined in the order of the array.
Flatten(chunksArr) ==
  IF chunksArr = << >> THEN << >>
  ELSE Head(chunksArr) \o Flatten(Tail(chunksArr))

\* validateTransfer, lines 69-84
validateTransfer(expectedSize, actualSize, expectedChunks, actualChunks) ==
  expectedSize = actualSize /\ expectedChunks = actualChunks

\* Lines 247-316, the body of the try of a finalization: whether it throws,
\* the bytes handed to the user and the size passed to validateTransfer.
\* With a writable: it is closed and the file is read; a compressed file is
\* inflated and written to a file asked for with a second picker. Without:
\* the rows are read back (readAllChunksIndexedDB drops the holes), counted,
\* inflated when compressed, and downloaded.
SinkResult(f, secondPickerChosen) ==
  IF f.fw
    THEN LET data == fsFile[f.fileId].data
         IN  IF fsFile[f.fileId].closed
               THEN [throws |-> TRUE, artifact |-> << >>, actualSize |-> 0]
             ELSE IF ~f.meta.compressed
               THEN [throws |-> FALSE, artifact |-> data, actualSize |-> Len(data)]
             ELSE IF InflateThrows(data) \/ ~secondPickerChosen
               THEN [throws |-> TRUE, artifact |-> << >>, actualSize |-> 0]
             ELSE [throws |-> FALSE, artifact |-> Inflate(data),
                   actualSize |-> Len(Inflate(data))]
    ELSE LET chunksArr == readAllChunksIndexedDB(idbChunks, f.fileId)
             data      == Flatten(chunksArr)
         IN  IF Len(chunksArr) # f.meta.chunks
               THEN [throws |-> TRUE, artifact |-> << >>, actualSize |-> 0]
             ELSE IF ~f.meta.compressed
               THEN [throws |-> FALSE, artifact |-> data, actualSize |-> Len(data)]
             ELSE IF InflateThrows(data)
               THEN [throws |-> TRUE, artifact |-> << >>, actualSize |-> 0]
             ELSE [throws |-> FALSE, artifact |-> Inflate(data),
                   actualSize |-> Len(Inflate(data))]

\* An acknowledgment sent from the finally block, after an error too.
AckSentAfterError(result) == readyState = "open"

\* Lines 318-335: the acknowledgment is sent at the end of the try, on the
\* open channel.
AckSent(result) == ~result.throws /\ readyState = "open"

\* Lines 247-338: the finalization runs from the sink to the acknowledgment
\* or to the catch. The value of validateTransfer is computed and not used.
Finalize(f, secondPickerChosen) ==
  /\ f \in fin
  /\ f.stage = "sink"
  /\ LET id     == f.fileId
         result == SinkResult(f, secondPickerChosen)
         valid  == validateTransfer(f.meta.size, result.actualSize,
                                    f.meta.chunks, f.receivedChunks)
     IN  /\ fsFile' = IF f.fw THEN [fsFile EXCEPT ![id].closed = TRUE] ELSE fsFile
         /\ rcvLog' = rcvLog
                \o (IF result.throws
                      THEN << [kind |-> "processing-error", fileId |-> id] >>
                      ELSE << [kind |-> "delivered", fileId |-> id,
                               artifact |-> result.artifact, valid |-> valid] >>)
                \o (IF AckSent(result)
                      THEN << [kind |-> "ack", fileId |-> id] >>
                      ELSE << >>)
         /\ back' = IF AckSent(result) THEN Append(back, AckFrame(id)) ELSE back
         /\ fin' = (fin \ {f}) \cup {[f EXCEPT !.stage = "cleanup"]}
  /\ UNCHANGED <<hasPicker, fileMetaKeys, fileMeta, receivedCount, isFinalizing,
                 fileWriter, pickerPending, idbChunks, idbFiles, writes>>
  /\ UNCHANGED <<settings, readyState, bufferedAmount, lowEvent, wire, snd, bpWaiters,
                 resolvers, senderMsgs, acksReceived>>
  /\ UNCHANGED <<roomVars, sessVars, pullVars>>

\* The finally block, lines 339-347: deleteFileIndexedDB, then the four refs
\* lose the key of the transfer.
Cleanup(f) ==
  /\ f \in fin
  /\ f.stage = "cleanup"
  /\ idbChunks' = idbChunks \ RowsOf(idbChunks, f.fileId)
  /\ idbFiles' = idbFiles \ {f.fileId}
  /\ fileMeta' = Delete(fileMeta, f.fileId)
  /\ fileMetaKeys' = KeysAfterDelete(fileMetaKeys, f.fileId)
  /\ receivedCount' = Delete(receivedCount, f.fileId)
  /\ fileWriter' = fileWriter \ {f.fileId}
  /\ isFinalizing' = Delete(isFinalizing, f.fileId)
  /\ fin' = fin \ {f}
  /\ UNCHANGED <<hasPicker, fsFile, pickerPending, writes, rcvLog>>
  /\ UNCHANGED <<roomVars, sessVars, pullVars, senderVars>>

(***************************************************************************)
(* SpecChunkStore: the chunk store of src/services/indexedDB.js under any  *)
(* sequence of puts, deletions and reads of one file.                      *)
(***************************************************************************)
StoredIndices == 0..MaxStoredIndex

ChunkData == {<<1>>, <<2>>}

\* storeChunkIndexedDB(fileId, index, data)
PutChunk(id, index, data) ==
  /\ idbChunks' = StoreChunk(idbChunks, id, index, data)
  /\ UNCHANGED <<hasPicker, fileMetaKeys, fileMeta, receivedCount, isFinalizing,
                 fileWriter, fsFile, pickerPending, idbFiles, writes, fin, rcvLog>>
  /\ UNCHANGED <<roomVars, sessVars, pullVars, senderVars>>

\* saveFileMetadataIndexedDB(fileMeta), lines 52-60
SaveFileMetadata(id) ==
  /\ idbFiles' = idbFiles \cup {id}
  /\ UNCHANGED <<hasPicker, fileMetaKeys, fileMeta, receivedCount, isFinalizing,
                 fileWriter, fsFile, pickerPending, idbChunks, writes, fin, rcvLog>>
  /\ UNCHANGED <<roomVars, sessVars, pullVars, senderVars>>

\* A deleteFileIndexedDB whose cursor deletes every row it visits.
DeleteFileOfAll(id) ==
  /\ idbChunks' = {}
  /\ idbFiles' = idbFiles \ {id}
  /\ rcvLog' = << [kind |-> "deleted", fileId |-> id,
                   rows |-> Cardinality(RowsOf(idbChunks, id)),
                   meta |-> id \in idbFiles] >>
  /\ UNCHANGED <<hasPicker, fileMetaKeys, fileMeta, receivedCount, isFinalizing,
                 fileWriter, fsFile, pickerPending, writes, fin>>
  /\ UNCHANGED <<roomVars, sessVars, pullVars, senderVars>>

\* deleteFileIndexedDB(fileId), lines 98-119: one transaction over both
\* stores.  The log keeps what the call found for the id: the number of chunk
\* rows and whether there was a metadata row.
DeleteFile(id) ==
  /\ idbChunks' = idbChunks \ RowsOf(idbChunks, id)
  /\ idbFiles' = idbFiles \ {id}
  /\ rcvLog' = << [kind |-> "deleted", fileId |-> id,
                   rows |-> Cardinality(RowsOf(idbChunks, id)),
                   meta |-> id \in idbFiles] >>
  /\ UNCHANGED <<hasPicker, fileMetaKeys, fileMeta, receivedCount, isFinalizing,
                 fileWriter, fsFile, pickerPending, writes, fin>>
  /\ UNCHANGED <<roomVars, sessVars, pullVars, senderVars>>

\* A caller reads the chunks of the file back; the log keeps the rows that
\* were stored at that moment and the array returned.
ReadAllChunks(id) ==
  /\ rcvLog' = << [kind |-> "read", fileId |-> id,
                   rows |-> RowsOf(idbChunks, id),
                   chunks |-> readAllChunksIndexedDB(idbChunks, id)] >>
  /\ UNCHANGED <<hasPicker, fileMetaKeys, fileMeta, receivedCount, isFinalizing,
                 fileWriter, fsFile, pickerPending, idbChunks, idbFiles, writes, fin>>
  /\ UNCHANGED <<roomVars, sessVars, pullVars, senderVars>>

InitChunkStore ==
  /\ RoomsStart
  /\ SessionStart
  /\ PullStart
  /\ TransferStart(1, FALSE, FALSE)
  /\ back = << >>

NextChunkStore ==
  \/ \E index \in StoredIndices, data \in ChunkData : PutChunk(FileId(1), index, data)
  \/ DeleteFile(FileId(1))
  \/ ReadAllChunks(FileId(1))

SpecChunkStore == InitChunkStore /\ [][NextChunkStore]_vars

(***************************************************************************)
(* SpecFileStore: both object stores of src/services/indexedDB.js with the *)
(* rows of two transfers, under any sequence of puts and deletions.        *)
(***************************************************************************)
StoreIds == {FileId(1), StaleId}

NextFileStore ==
  \/ \E id \in StoreIds, index \in StoredIndices, data \in ChunkData : PutChunk(id, index, data)
  \/ \E id \in StoreIds : SaveFileMetadata(id)
  \/ \E id \in StoreIds : DeleteFile(id)

SpecFileStore == InitChunkStore /\ [][NextFileStore]_vars

(***************************************************************************)
(* SpecPull: the pull variant of the transfer (the App component whose     *)
(* receiver asks for every chunk).  One file of 1..MaxPullSize bytes is    *)
(* sent with settings.chunkSize = 1 and no compression over a channel that *)
(* stays open; the retry timer of a pending request may expire at any      *)
(* moment before the answer has been handled.  The network takes the       *)
(* sender's frames fast enough for channel.bufferedAmount to stay below    *)
(* MAX_BUFFERED_AMOUNT.                                                    *)
(***************************************************************************)
CHUNK_REQUEST_MAX_RETRIES == 4

\* MAX_BUFFERED_AMOUNT, line 33, counted in chunks of settings.chunkSize: the
\* source has 16 MB and chunks of 64 KB to 2 MB (the range of lines 338-340).
MaxBufferedChunks == 2

\* The calls of sendRequestedChunk that sleep in waitForBufferLow at one time.
MaxWaits == 2

\* The binary bytes the sender has handed to the channel and the receiver has
\* not been given yet; channel.bufferedAmount is the part of them that has not
\* left the sender.
Undelivered ==
  LET RECURSIVE Sum(_)
      Sum(s) == IF s = << >> THEN 0
                ELSE (IF Head(s).type = "binary" THEN Len(Head(s).data) ELSE 0) + Sum(Tail(s))
  IN  Sum(chunkWire)

PullId == "f"

\* No sendFile call has been made in the run.
NothingSentYet ==
  /\ currentFileTransfer = NoTransfer
  /\ chunkWire = << >>
  /\ requestWire = << >>
  /\ pullFileMeta = NoMeta
  /\ pendingChunkRequests = {}
  /\ pullOut = {}

\* sendFile(file), lines 1145-1244, with settings.compression off
PullSendFile(size) ==
  /\ NothingSentYet
  /\ LET fileToSend  == Bytes(size)
         totalChunks == Ceil(Len(fileToSend), settings.chunkSize)
     IN  /\ chunkWire' = Append(chunkWire, [type |-> "file-metadata", fileId |-> PullId,
                                            size |-> size, chunks |-> totalChunks])
         /\ currentFileTransfer' = [fileId |-> PullId, fileToSend |-> fileToSend,
                                    totalChunks |-> totalChunks]
  /\ UNCHANGED <<requestWire, pullPicker, pullFileMeta, pullReceivedCount,
                 pullIsFinalizing, pullFileWriter, pullFsFile, pullChunks,
                 pendingChunkRequests, pendingChunkMeta, pullWrites, pullFin,
                 resent, pullOut>>
  /\ UNCHANGED <<roomVars, xferVars, sessVars, bufferWaits>>

\* let retries = 0 in requestNextChunk, line 507: no statement assigns it again.
ClosureRetries == 0

\* scheduleRetry, lines 508-532: pendingChunkRequestsRef.current.set(key,
\* { timeoutId, retries }) with the variable `retries` of the closure.
ScheduleRetry(pending, chunkIndex) ==
  {e \in pending : e.index # chunkIndex}
    \cup {[index |-> chunkIndex, retries |-> ClosureRetries]}

RequestFrame(chunkIndex) ==
  [type |-> "request-chunk", fileId |-> PullId, chunkIndex |-> chunkIndex]

\* requestNextChunk(fileId, chunkIndex), lines 475-537, on the open channel:
\* rq is [pending, wire, resent], the pending map, the frames sent to the
\* sender, and the re-sends counted since each request was registered.
requestNextChunk(rq, chunkIndex) ==
  IF \E e \in rq.pending : e.index = chunkIndex
    THEN rq
    ELSE [pending |-> ScheduleRetry(rq.pending, chunkIndex),
          wire    |-> Append(rq.wire, RequestFrame(chunkIndex)),
          resent  |-> [rq.resent EXCEPT ![chunkIndex] = 0]]

RECURSIVE requestEach(_, _)
\* for (const idx of missing) requestNextChunk(fileId, idx), lines 948-950
requestEach(rq, missing) ==
  IF missing = {} THEN rq
  ELSE LET idx == CHOOSE i \in missing : \A j \in missing : i <= j
       IN  requestEach(requestNextChunk(rq, idx), missing \ {idx})

RequestState ==
  [pending |-> pendingChunkRequests, wire |-> requestWire, resent |-> resent]

\* The callback of the retry timer of the request for chunkIndex, lines 509-529
PullRetryTimer(chunkIndex) ==
  /\ \E entry \in pendingChunkRequests :
       /\ entry.index = chunkIndex
       /\ resent[chunkIndex] < MaxResends
       /\ IF entry.retries >= CHUNK_REQUEST_MAX_RETRIES
            THEN /\ pullOut' = pullOut \cup {[kind |-> "error", text |-> "Failed to receive chunk"]}
                 /\ pendingChunkRequests' = pendingChunkRequests \ {entry}
                 /\ UNCHANGED <<requestWire, resent>>
            ELSE /\ requestWire' = Append(requestWire, RequestFrame(chunkIndex))
                 /\ pendingChunkRequests' = ScheduleRetry(pendingChunkRequests, chunkIndex)
                 /\ resent' = [resent EXCEPT ![chunkIndex] = @ + 1]
                 /\ UNCHANGED pullOut
  /\ UNCHANGED <<currentFileTransfer, chunkWire, pullPicker, pullFileMeta,
                 pullReceivedCount, pullIsFinalizing, pullFileWriter, pullFsFile,
                 pullChunks, pendingChunkMeta, pullWrites, pullFin>>
  /\ UNCHANGED <<roomVars, xferVars, sessVars, bufferWaits>>

\* sendRequestedChunk(fileId, chunkIndex), lines 540-612: the chunk-meta frame
\* of line 570 and the binary frame of line 576.
sendRequestedChunk(chunkIndex) ==
  LET transfer == currentFileTransfer
  IN  IF transfer = NoTransfer
        THEN << >>
        ELSE IF chunkIndex >= transfer.totalChunks
          THEN << >>
          ELSE LET offset == chunkIndex * settings.chunkSize
                   slice  == Slice(transfer.fileToSend, offset, offset + settings.chunkSize)
               IN  << [type |-> "chunk-meta", fileId |-> PullId, chunkIndex |-> chunkIndex],
                      [type |-> "binary", data |-> slice] >>

\* channel.onmessage of the sender: request-chunk (lines 699-704),
\* transfer-complete (705-718, with its timer) and transfer-error (719-725).
\* channel.bufferedAmount falls at the pace of the network and is at most
\* Undelivered: when it is above MAX_BUFFERED_AMOUNT at line 469 the call has
\* sent its chunk-meta and sleeps in the loop of waitForBufferLow.
PullSenderReceive(bufferedAboveMax) ==
  /\ requestWire # << >>
  /\ bufferedAboveMax => /\ Undelivered > MaxBufferedChunks * settings.chunkSize
                         /\ Len(bufferWaits) < MaxWaits
  /\ LET message == Head(requestWire)
         frames  == sendRequestedChunk(message.chunkIndex)
     IN  IF message.type = "request-chunk"
           THEN /\ IF frames # << >> /\ bufferedAboveMax
                     THEN /\ chunkWire' = Append(chunkWire, frames[1])
                          /\ bufferWaits' = Append(bufferWaits, frames[2])
                     ELSE /\ chunkWire' = chunkWire \o frames
                          /\ UNCHANGED bufferWaits
                /\ UNCHANGED currentFileTransfer
           ELSE /\ currentFileTransfer' = NoTransfer
                /\ UNCHANGED <<chunkWire, bufferWaits>>
  /\ requestWire' = Tail(requestWire)
  /\ UNCHANGED <<pullPicker, pullFileMeta, pullReceivedCount, pullIsFinalizing,
                 pullFileWriter, pullFsFile, pullChunks, pendingChunkRequests,
                 pendingChunkMeta, pullWrites, pullFin, resent, pullOut>>
  /\ UNCHANGED <<roomVars, xferVars, sessVars>>

\* waitForBufferLow, lines 466-472, returns to the k-th paused call (each call
\* polls with its own 30 ms timer), which sends its binary, line 576.
waitForBufferLow(k) ==
  /\ k \in 1..Len(bufferWaits)
  /\ chunkWire' = Append(chunkWire, bufferWaits[k])
  /\ bufferWaits' = SubSeq(bufferWaits, 1, k - 1) \o SubSeq(bufferWaits, k + 1, Len(bufferWaits))
  /\ UNCHANGED <<currentFileTransfer, requestWire, pullPicker, pullFileMeta,
                 pullReceivedCount, pullIsFinalizing, pullFileWriter, pullFsFile,
                 pullChunks, pendingChunkRequests, pendingChunkMeta, pullWrites,
                 pullFin, resent, pullOut>>
  /\ UNCHANGED <<roomVars, xferVars, sessVars>>

\* channel.onmessage of the receiver, file-metadata, lines 657-698
PullReceiveMetadata ==
  /\ chunkWire # << >>
  /\ Head(chunkWire).type = "file-metadata"
  /\ LET meta == Head(chunkWire)
         rq   == requestNextChunk(RequestState, 0)
     IN  /\ pullFileMeta' = meta
         /\ pullReceivedCount' = 0
         /\ pullIsFinalizing' = FALSE
         /\ pullFileWriter' = pullPicker
         /\ pendingChunkRequests' = rq.pending
         /\ requestWire' = rq.wire
         /\ resent' = rq.resent
  /\ chunkWire' = Tail(chunkWire)
  /\ UNCHANGED <<currentFileTransfer, pullPicker, pullFsFile, pullChunks,
                 pendingChunkMeta, pullWrites, pullFin, pullOut>>
  /\ UNCHANGED <<roomVars, xferVars, sessVars, bufferWaits>>

\* channel.onmessage of the receiver, chunk-meta, lines 726-731
PullReceiveChunkMeta ==
  /\ chunkWire # << >>
  /\ Head(chunkWire).type = "chunk-meta"
  /\ pendingChunkMeta' = pendingChunkMeta \cup {Head(chunkWire).chunkIndex}
  /\ chunkWire' = Tail(chunkWire)
  /\ UNCHANGED <<currentFileTransfer, requestWire, pullPicker, pullFileMeta,
                 pullReceivedCount, pullIsFinalizing, pullFileWriter, pullFsFile,
                 pullChunks, pendingChunkRequests, pullWrites, pullFin, resent,
                 pullOut>>
  /\ UNCHANGED <<roomVars, xferVars, sessVars, bufferWaits>>

\* The index a binary frame is stored at, lines 739-759.
UsedIndex(expectedIndex, metas) ==
  IF expectedIndex \in metas THEN expectedIndex
  ELSE IF metas # {} THEN CHOOSE i \in metas : \A j \in metas : i <= j
  ELSE expectedIndex

\* channel.onmessage of the receiver, a binary frame, lines 732-786: the index
\* is chosen, the retry timer of that index is cleared and the write is
\* issued; the handler is then suspended until the write has completed.
PullReceiveBinary ==
  /\ chunkWire # << >>
  /\ Head(chunkWire).type = "binary"
  /\ chunkWire' = Tail(chunkWire)
  /\ IF pullFileMeta = NoMeta
       THEN UNCHANGED <<pendingChunkMeta, pendingChunkRequests, pullFsFile,
                        pullChunks, pullWrites>>
       ELSE LET buf       == Head(chunkWire).data
                usedIndex == UsedIndex(pullReceivedCount, pendingChunkMeta)
            IN  /\ pendingChunkMeta' = pendingChunkMeta \ {usedIndex}
                /\ pendingChunkRequests' =
                     {e \in pendingChunkRequests : e.index # usedIndex}
                /\ IF pullFileWriter
                     THEN /\ pullFsFile' = StoreChunk(pullFsFile, PullId, usedIndex, buf)
                          /\ UNCHANGED pullChunks
                     ELSE /\ pullChunks' = StoreChunk(pullChunks, PullId, usedIndex, buf)
                          /\ UNCHANGED pullFsFile
                /\ pullWrites' = Append(pullWrites, usedIndex)
  /\ UNCHANGED <<currentFileTransfer, requestWire, pullPicker, pullFileMeta,
                 pullReceivedCount, pullIsFinalizing, pullFileWriter, pullFin,
                 resent, pullOut>>
  /\ UNCHANGED <<roomVars, xferVars, sessVars, bufferWaits>>

\* The binary handler after its awaited write, lines 794-875: the counter is
\* raised, whatever the index was, then the next chunk is requested or the
\* finalization starts.  After the cleanup of the file, line 846 throws and
\* the catch block (980-995) reports the error to both sides.
PullWriteDone ==
  /\ pullWrites # << >>
  /\ pullWrites' = Tail(pullWrites)
  /\ pullReceivedCount' = pullReceivedCount + 1
  /\ IF pullFileMeta = NoMeta
       THEN /\ pullOut' = pullOut \cup {[kind |-> "error", text |-> "File receive error"]}
            /\ requestWire' = Append(requestWire, [type |-> "transfer-error"])
            /\ UNCHANGED <<pendingChunkRequests, resent, pullIsFinalizing, pullFin>>
       ELSE IF pullReceivedCount' < pullFileMeta.chunks
         THEN LET rq == requestNextChunk(RequestState, pullReceivedCount')
              IN  /\ pendingChunkRequests' = rq.pending
                  /\ requestWire' = rq.wire
                  /\ resent' = rq.resent
                  /\ UNCHANGED <<pullIsFinalizing, pullFin, pullOut>>
         ELSE IF ~pullIsFinalizing
           THEN /\ pullIsFinalizing' = TRUE
                /\ pullFin' = TRUE
                /\ UNCHANGED <<pendingChunkRequests, requestWire, resent, pullOut>>
           ELSE UNCHANGED <<pendingChunkRequests, requestWire, resent,
                            pullIsFinalizing, pullFin, pullOut>>
  /\ UNCHANGED <<currentFileTransfer, chunkWire, pullPicker, pullFileMeta,
                 pullFileWriter, pullFsFile, pullChunks, pendingChunkMeta>>
  /\ UNCHANGED <<roomVars, xferVars, sessVars, bufferWaits>>

\* readAllChunksIndexedDB(fileId, totalChunks) of the pull variant, lines
\* 76-100: new Array(totalChunks), filled by index, resolved as it is.
readAllChunksOfTotal(store, id, totalChunks) ==
  [i \in 1..totalChunks |->
     IF \E r \in RowsOf(store, id) : r.index = i - 1
       THEN (CHOOSE r \in RowsOf(store, id) : r.index = i - 1).data
       ELSE Hole]

\* The finalization after its pause of 150 ms, lines 875-978.
PullFinalize ==
  /\ pullFin
  /\ pullFin' = FALSE
  /\ LET totalChunks == pullFileMeta.chunks
         chunksArr   == readAllChunksOfTotal(pullChunks, PullId, totalChunks)
         missing     == {i \in 0..(totalChunks - 1) : chunksArr[i + 1] = Hole}
         delivered   == IF pullFileWriter THEN ChunksByIndex(pullFsFile, PullId)
                        ELSE chunksArr
     IN  IF pullFileWriter \/ missing = {}
           THEN /\ pullOut' = pullOut \cup {[kind |-> "download", size |-> pullFileMeta.size,
                                            chunks |-> delivered]}
                /\ pullChunks' = { }
                /\ pullFileMeta' = NoMeta
                /\ pullReceivedCount' = 0
                /\ pullFileWriter' = FALSE
                /\ pullIsFinalizing' = FALSE
                /\ requestWire' = Append(requestWire, [type |-> "transfer-complete"])
                /\ UNCHANGED <<pendingChunkRequests, resent>>
           ELSE LET rq == requestEach(RequestState, missing)
                IN  /\ pullOut' = pullOut \cup {[kind |-> "error", text |-> "Missing chunks"]}
                    /\ pullIsFinalizing' = FALSE
                    /\ pendingChunkRequests' = rq.pending
                    /\ requestWire' = rq.wire
                    /\ resent' = rq.resent
                    /\ UNCHANGED <<pullChunks, pullFileMeta, pullReceivedCount,
                                   pullFileWriter>>
  /\ UNCHANGED <<currentFileTransfer, chunkWire, pullPicker, pullFsFile,
                 pendingChunkMeta, pullWrites>>
  /\ UNCHANGED <<roomVars, xferVars, sessVars, bufferWaits>>

InitPull ==
  /\ RoomsStart
  /\ TransferStart(1, FALSE, FALSE)
  /\ back = << >>
  /\ SessionStart /\ \E picker \in BOOLEAN : PullStartWith(picker)

NextPull ==
  \/ \E size \in 1..MaxPullSize : PullSendFile(size)
  \/ \E chunkIndex \in PullIndices : PullRetryTimer(chunkIndex)
  \/ PullSenderReceive(FALSE)
  \/ PullReceiveMetadata
  \/ PullReceiveChunkMeta
  \/ PullReceiveBinary
  \/ PullWriteDone
  \/ PullFinalize

SpecPull == InitPull /\ [][NextPull]_vars

(***************************************************************************)
(* SpecPullBacklog: the pull variant on a slow network.  The run starts    *)
(* after sendFile and the receiver's file-metadata handler, when the retry *)
(* timer of chunk 0 has fired `retried` times and none of the requests has *)
(* been given to the sender yet; no timer fires after that.  The frames    *)
(* the sender sends may stay in its buffer.                                 *)
(***************************************************************************)
InitPullBacklog ==
  /\ RoomsStart
  /\ TransferStart(1, FALSE, FALSE)
  /\ back = << >>
  /\ SessionStart
  /\ \E size \in 1..MaxPullSize, picker \in BOOLEAN, retried \in 0..MaxResends :
       LET fileToSend  == Bytes(size)
           totalChunks == Ceil(Len(fileToSend), settings.chunkSize)
       IN  /\ currentFileTransfer = [fileId |-> PullId, fileToSend |-> fileToSend,
                                     totalChunks |-> totalChunks]
           /\ requestWire = [i \in 1..(1 + retried) |-> RequestFrame(0)]
           /\ chunkWire = << >>
           /\ pullPicker = picker
           /\ pullFileMeta = [type |-> "file-metadata", fileId |-> PullId,
                              size |-> size, chunks |-> totalChunks]
           /\ pullReceivedCount = 0
           /\ pullIsFinalizing = FALSE
           /\ pullFileWriter = picker
           /\ pullFsFile = {}
           /\ pullChunks = {}
           /\ pendingChunkRequests = ScheduleRetry({}, 0)
           /\ pendingChunkMeta = {}
           /\ pullWrites = << >>
           /\ pullFin = FALSE
           /\ resent = [i \in PullIndices |-> IF i = 0 THEN retried ELSE 0]
           /\ pullOut = {}
           /\ bufferWaits = << >>

NextPullBacklog ==
  \/ \E bufferedAboveMax \in BOOLEAN : PullSenderReceive(bufferedAboveMax)
  \/ \E k \in 1..MaxWaits : waitForBufferLow(k)
  \/ PullReceiveChunkMeta
  \/ PullReceiveBinary
  \/ PullWriteDone
  \/ PullFinalize

SpecPullBacklog == InitPullBacklog /\ [][NextPullBacklog]_vars

(***************************************************************************)
(* SpecTransfer: one sendFile call of a small file, the channel, and the   *)
(* receiver with or without the save picker.                               *)
(***************************************************************************)
InitTransfer ==
  /\ RoomsStart
  /\ SessionStart
  /\ PullStart
  /\ \E chunkSize \in 1..MaxChunkSize, compression \in BOOLEAN, picker \in BOOLEAN :
       TransferStart(chunkSize, compression, picker)
  /\ back \in {<< >>, << AckFrame(StaleId) >>}

NextTransfer ==
  \/ \E c \in Calls, size \in 0..MaxFileSize, isZip \in BOOLEAN : SendFile(c, size, isZip)
  \/ \E c \in Calls, throws \in BOOLEAN : Compressed(c, throws)
  \/ \E c \in Calls : LoopStep(c)
  \/ \E c \in Calls : TrySend(c)
  \/ ReceiveAck
  \/ \E c \in Calls : AckTimeout(c)
  \/ ChannelClose
  \/ ReceiveMetadata
  \/ \E id \in pickerPending, chosen \in BOOLEAN : PickerSettles(id, chosen)
  \/ ReceiveChunk
  \/ \E k \in WriteSlots : WriteDone(k)
  \/ \E f \in fin, secondPickerChosen \in BOOLEAN : Finalize(f, secondPickerChosen)
  \/ \E f \in fin : Cleanup(f)

SpecTransfer == InitTransfer /\ [][NextTransfer]_vars

(***************************************************************************)
(* FairSpecDelivery: one sendFile call without compression on a channel    *)
(* that stays open and delivers every frame in order; the receiver's       *)
(* writes succeed, every handler that can run does run, and the            *)
(* acknowledgment timer of the sender does not expire.                    *)
(***************************************************************************)
InitDelivery ==
  /\ RoomsStart
  /\ SessionStart
  /\ PullStart
  /\ \E chunkSize \in 1..MaxChunkSize, picker \in BOOLEAN :
       TransferStart(chunkSize, FALSE, picker)
  /\ back = << >>

NextDelivery ==
  \/ \E c \in Calls, size \in 0..MaxFileSize, isZip \in BOOLEAN : SendFile(c, size, isZip)
  \/ \E c \in Calls : LoopStep(c)
  \/ \E c \in Calls : TrySend(c)
  \/ ReceiveAck
  \/ ReceiveMetadata
  \/ \E id \in pickerPending, chosen \in BOOLEAN : PickerSettles(id, chosen)
  \/ ReceiveChunk
  \/ \E k \in WriteSlots : WriteDone(k)
  \/ \E f \in fin, secondPickerChosen \in BOOLEAN : Finalize(f, secondPickerChosen)
  \/ \E f \in fin : Cleanup(f)

FairSpecDelivery ==
  /\ InitDelivery
  /\ [][NextDelivery]_vars
  /\ \A c \in Calls : WF_vars(LoopStep(c)) /\ WF_vars(TrySend(c))
  /\ WF_vars(ReceiveAck)
  /\ WF_vars(ReceiveMetadata)
  /\ WF_vars(\E id \in pickerPending, chosen \in BOOLEAN : PickerSettles(id, chosen))
  /\ WF_vars(ReceiveChunk)
  /\ WF_vars(\E k \in WriteSlots : WriteDone(k))
  /\ WF_vars(\E f \in fin, secondPickerChosen \in BOOLEAN : Finalize(f, secondPickerChosen))
  /\ WF_vars(\E f \in fin : Cleanup(f))

(***************************************************************************)
(* SpecOverlap: the receiver while the peer runs two sendFile calls on one *)
(* session (sendFile tests only the state of the channel, lines 497-503).  *)
(* Both calls have put all their frames on the channel, each in its own    *)
(* order and in any order with respect to the other; settings.chunkSize is *)
(* 1 and compression is off.                                               *)
(***************************************************************************)
\* fileId of the second call.
SecondId == 2

\* The bytes of the file of the second call.
SecondBytes(n) == [i \in 1..n |-> MaxFileSize + i]

\* The frames one sendFile call puts on the channel, lines 532-582.
FramesOf(id, payload) ==
  << [type |-> "file-metadata", fileId |-> id, size |-> Len(payload),
      chunks |-> Ceil(Len(payload), 1), compressed |-> FALSE,
      compressedSize |-> Len(payload)] >>
    \o [k \in 1..Len(payload) |-> ChunkFrame(Slice(payload, k - 1, k))]

RECURSIVE Interleavings(_, _)
\* The orders in which the channel can carry the frames of two calls.
Interleavings(a, b) ==
  IF a = << >> THEN {b}
  ELSE IF b = << >> THEN {a}
  ELSE {<<Head(a)>> \o s : s \in Interleavings(Tail(a), b)}
         \cup {<<Head(b)>> \o s : s \in Interleavings(a, Tail(b))}

InitOverlap ==
  /\ RoomsStart
  /\ SessionStart
  /\ PullStart
  /\ back = << >>
  /\ settings = [chunkSize |-> 1, compression |-> FALSE]
  /\ hasPicker \in BOOLEAN
  /\ readyState = "open"
  /\ bufferedAmount = 0
  /\ lowEvent = FALSE
  /\ \E first \in 1..MaxOverlapSize, second \in 1..MaxOverlapSize :
       wire \in Interleavings(FramesOf(FileId(1), Bytes(first)),
                              FramesOf(SecondId, SecondBytes(second)))
  /\ snd = [c \in Calls |-> IdleCall]
  /\ bpWaiters = {}
  /\ resolvers = {}
  /\ senderMsgs = << >>
  /\ acksReceived = {}
  /\ fileMetaKeys = << >>
  /\ fileMeta = << >>
  /\ receivedCount = << >>
  /\ isFinalizing = << >>
  /\ fileWriter = {}
  /\ fsFile = << >>
  /\ pickerPending = {}
  /\ idbChunks = {}
  /\ idbFiles = {}
  /\ writes = << >>
  /\ fin = {}
  /\ rcvLog = << >>

NextOverlap ==
  \/ ReceiveMetadata
  \/ \E id \in pickerPending, chosen \in BOOLEAN : PickerSettles(id, chosen)
  \/ ReceiveChunk
  \/ \E k \in WriteSlots : WriteDone(k)
  \/ \E f \in fin, secondPickerChosen \in BOOLEAN : Finalize(f, secondPickerChosen)
  \/ \E f \in fin : Cleanup(f)

SpecOverlap == InitOverlap /\ [][NextOverlap]_vars

(***************************************************************************)
(* SpecNaming: the name a file travels under. sendFile declares a name in  *)
(* file-metadata; the receiver computes from it the name it gives to the   *)
(* file picker or to the download link.                                    *)
(***************************************************************************)
\* The characters of the file names: a letter, the dot and the letters of
\* the suffix "zip".
NameChars == {"a", ".", "z", "i", "p"}

\* File names: strings of 1 to MaxNameLen characters.
Names == UNION {[1..n -> NameChars] : n \in 1..MaxNameLen}

DotZip == <<".", "z", "i", "p">>

\* String.prototype.endsWith
EndsWith(name, suffix) ==
  /\ Len(name) >= Len(suffix)
  /\ SubSeq(name, Len(name) - Len(suffix) + 1, Len(name)) = suffix

\* name.slice(0, -4): the name without its last four characters, the empty
\* string when it has four or fewer.
SliceOffFour(name) ==
  IF Len(name) > 4 THEN SubSeq(name, 1, Len(name) - 4) ELSE << >>

\* sendFile, lines 510-528 and 535-544: the file-metadata of a file with this
\* name. The compressed File is named file.name + ".zip", the name declared
\* is file.name.
NamedMetadata(name, isZip, throws) ==
  [type       |-> "file-metadata",
   fileId     |-> FileId(1),
   name       |-> name,
   compressed |-> settings.compression /\ ~isZip /\ ~throws]

\* onmessage, lines 178-181: the name suggested by the picker of the
\* file-metadata handler.
SuggestedName(meta) ==
  IF meta.compressed /\ EndsWith(meta.name, DotZip)
    THEN SliceOffFour(meta.name)
    ELSE meta.name

\* onmessage, lines 264-266: the name suggested by the picker for the
\* decompressed file.
DecompressedSuggestedName(meta) == SliceOffFour(meta.name)

\* onmessage, lines 305-307: a.download
DownloadName(meta) ==
  IF meta.compressed THEN SliceOffFour(meta.name) ELSE meta.name

\* The name of the artifact the user is left with: with a writable the file
\* of the first picker, or the file of the second picker when the transfer
\* was compressed (the first file is removed, line 270); the download
\* otherwise.
DeliveredName(meta, writable) ==
  IF writable
    THEN IF meta.compressed THEN DecompressedSuggestedName(meta)
                            ELSE SuggestedName(meta)
    ELSE DownloadName(meta)

\* sendFile up to the send of file-metadata (line 548).
SendNamedFile ==
  /\ wire = << >>
  /\ rcvLog = << >>
  /\ \E name \in Names, isZip \in BOOLEAN, throws \in BOOLEAN :
       wire' = << NamedMetadata(name, isZip, throws) >>
  /\ UNCHANGED <<settings, readyState, bufferedAmount, lowEvent, back, snd,
                 bpWaiters, resolvers, senderMsgs, acksReceived>>
  /\ UNCHANGED <<hasPicker, fileMetaKeys, fileMeta, receivedCount, isFinalizing,
                 fileWriter, fsFile, pickerPending, idbChunks, idbFiles, writes,
                 fin, rcvLog>>
  /\ UNCHANGED <<roomVars, sessVars, pullVars>>

\* The receiver's handling of the transfer up to the delivery: the picker is
\* shown when it exists, the user picks a file or cancels, and the finished
\* file is delivered through the sink that resulted.
DeliverNamed(chosen) ==
  /\ wire # << >>
  /\ chosen => hasPicker
  /\ LET meta == Head(wire)
     IN  rcvLog' = << [kind       |-> "delivered",
                       fileId     |-> meta.fileId,
                       declared   |-> meta.name,
                       compressed |-> meta.compressed,
                       writable   |-> chosen,
                       name       |-> DeliveredName(meta, chosen)] >>
  /\ wire' = << >>
  /\ UNCHANGED <<settings, readyState, bufferedAmount, lowEvent, back, snd,
                 bpWaiters, resolvers, senderMsgs, acksReceived>>
  /\ UNCHANGED <<hasPicker, fileMetaKeys, fileMeta, receivedCount, isFinalizing,
                 fileWriter, fsFile, pickerPending, idbChunks, idbFiles, writes, fin>>
  /\ UNCHANGED <<roomVars, sessVars, pullVars>>

InitNaming ==
  /\ RoomsStart
  /\ SessionStart
  /\ PullStart
  /\ \E compression \in BOOLEAN, picker \in BOOLEAN : TransferStart(1, compression, picker)
  /\ back = << >>

NextNaming ==
  \/ SendNamedFile
  \/ \E chosen \in BOOLEAN : DeliverNamed(chosen)

SpecNaming == InitNaming /\ [][NextNaming]_vars

(***************************************************************************)
(* Properties of the session                                               *)
(***************************************************************************)
\* C12: the session is shown as connected (peerConnected) only while the chat
\* channel and the file channel are both open.
C12_ConnectedOnlyWithBothChannels ==
  peerConnected =>
    /\ chan.chat = "open" /\ chan.file = "open"
    /\ channelsReady.chat /\ channelsReady.file

\* The number of times the candidate was added to the peer connection.
TimesApplied(candidate) ==
  Cardinality({i \in 1..Len(appliedIce) : appliedIce[i] = candidate})

\* C13: a candidate is added to the peer connection at most once, and when a
\* remote description is set and no offer or answer handler is suspended,
\* every candidate received that the connection accepts has been added, in
\* the order of arrival among those that were buffered.
C13_CandidatesAppliedOnce ==
  /\ \A i \in 1..Len(receivedIce) : TimesApplied(receivedIce[i]) <= 1
  /\ (remoteDescription /\ sigHandlers = {}) =>
       \A i \in 1..Len(receivedIce) :
         receivedIce[i].valid => TimesApplied(receivedIce[i]) = 1

\* C25: once the connection state is failed or closed the session is shown
\* as disconnected and neither the chat channel nor the file channel is open.
C25_FailureTearsChannelsDown ==
  pcState \in {"failed", "closed"} =>
    /\ ~peerConnected
    /\ \A ch \in Channels : chan[ch] # "open"

(***************************************************************************)
(* Properties of a transfer                                                *)
(***************************************************************************)
\* The positions of rcvLog at which an acknowledgment for `id` was sent.
AckPositions(id) ==
  {i \in 1..Len(rcvLog) : rcvLog[i].kind = "ack" /\ rcvLog[i].fileId = id}

FileIds == {FileId(c) : c \in Calls}

\* C1: an acknowledgment is sent only for a transfer whose delivered size
\* equals the declared original size and whose received chunk count equals the
\* declared chunk count, that is, for which validateTransfer held.
C1_AckOnlyIfValidated ==
  \A id \in FileIds : \A i \in AckPositions(id) :
    \E j \in 1..(i - 1) :
      /\ rcvLog[j].kind = "delivered"
      /\ rcvLog[j].fileId = id
      /\ rcvLog[j].valid

\* The call has shown this text.
Shown(c, text) ==
  \E i \in 1..Len(senderMsgs) : senderMsgs[i].call = c /\ senderMsgs[i].text = text

C3_PersistThenAck ==
  \A id \in FileIds : \A i \in AckPositions(id) :
    /\ i > 1
    /\ rcvLog[i - 1].kind = "delivered"
    /\ rcvLog[i - 1].fileId = id
    /\ \A j \in 1..Len(rcvLog) :
         ~(rcvLog[j].kind = "processing-error" /\ rcvLog[j].fileId = id)

\* C3's cases: an acknowledgment has been sent after the delivery.
C3_Witness ==
  \E id \in FileIds : \E i \in AckPositions(id) :
    /\ rcvLog[i - 1].kind = "delivered"
    /\ back # << >>
    /\ Head(back) = AckFrame(id)

\* The bytes the receiver holds for a transfer: the rows of the chunk store
\* in index order, then the bytes written through the writable.
StoredBytes(id) ==
  ConcatByIndex(RowsOf(idbChunks, id))
    \o (IF id \in DOMAIN fsFile THEN fsFile[id].data ELSE << >>)

\* Every chunk of the transfer has been received and written, and the
\* cleanup has not run.
AllChunksStored(c) ==
  /\ FileId(c) \in DOMAIN fileMeta
  /\ receivedCount[FileId(c)] = fileMeta[FileId(c)].chunks
  /\ writes = << >>

\* The number of chunk frames call c has put on the channel and that are
\* still on the wire, in a suspended write, or written.
ChunkFramesSeen(c) ==
  Cardinality({i \in 1..Len(wire) : wire[i].type = "chunk"})
    + (IF FileId(c) \in DOMAIN receivedCount THEN receivedCount[FileId(c)] ELSE 0)

\* C8: the chunk count declared in file-metadata is the least number of
\* chunks of chunkSize bytes that hold the bytes sent (the file, or its
\* compressed form); a call that has left the loop has sent exactly that many
\* frames; and once the receiver has written them all, the bytes it holds, in
\* index order, are the bytes sent.
C8_ChunkingRoundTrip ==
  \A c \in Calls :
    /\ snd[c].pc \in {"loop", "slice", "bp", "waitAck", "completed"} =>
         /\ snd[c].totalChunks * settings.chunkSize >= Len(snd[c].payload)
         /\ (snd[c].totalChunks - 1) * settings.chunkSize < Len(snd[c].payload)
              \/ (snd[c].totalChunks = 0 /\ snd[c].payload = << >>)
         /\ snd[c].index <= snd[c].totalChunks
         /\ readyState = "open" /\ FileId(c) \in DOMAIN receivedCount =>
              ChunkFramesSeen(c) = snd[c].index
    /\ snd[c].pc \in {"waitAck", "completed"} => snd[c].index = snd[c].totalChunks
    /\ FileId(c) \in DOMAIN fileMeta =>
         /\ fileMeta[FileId(c)].chunks = snd[c].totalChunks
         /\ fileMeta[FileId(c)].compressedSize = Len(snd[c].payload)
    /\ AllChunksStored(c) => StoredBytes(FileId(c)) = snd[c].payload

\* C8's case: a file of 5 bytes sent with chunk size 2 has been received as 3
\* chunks (2, 2 and 1 bytes) and the receiver holds its 5 bytes.
C8_Witness ==
  \E c \in Calls :
    /\ settings.chunkSize = 2
    /\ Len(snd[c].payload) = 5
    /\ snd[c].totalChunks = 3
    /\ AllChunksStored(c)
    /\ StoredBytes(FileId(c)) = Bytes(5)
    /\ \E r \in idbChunks : r.index = 2 /\ r.data = <<5>>

\* The messages hold this text for call c.
ShownIn(msgs, c, text) ==
  \E i \in 1..Len(msgs) : msgs[i].call = c /\ msgs[i].text = text

\* C11: when the acknowledgment timer of a call expires, the call ends as
\* failed with the timeout error; a call that has failed stays failed and is
\* not shown as completed, whatever acknowledgment arrives afterwards.
C11_TimeoutIsFailure ==
  [][\A c \in Calls :
       /\ AckTimeout(c) =>
            /\ snd'[c].pc = "failed"
            /\ snd'[c].error = "ACK timeout"
            /\ FileId(c) \notin resolvers'
       /\ snd[c].pc = "failed" =>
            /\ snd'[c] = snd[c]
            /\ ~ShownIn(senderMsgs', c, "Transfer completed")]_vars

\* C11's case: the call has failed on the timeout and the acknowledgment
\* with its id has been received after that.
C11_Witness ==
  \E c \in Calls :
    /\ snd[c].pc = "failed"
    /\ snd[c].error = "ACK timeout"
    /\ snd[c].index = snd[c].totalChunks
    /\ FileId(c) \in acksReceived
    /\ ~Shown(c, "Transfer completed")

\* C21: the chunk writes of a transfer go to one sink, never some to the
\* chunk store and others to the writable; and an acknowledgment is sent only
\* for a transfer whose finalized artifact holds every chunk received, that
\* is, has the declared size.
C21_OneSinkNoSilentDrop ==
  \A id \in FileIds :
    /\ ~(/\ RowsOf(idbChunks, id) # {}
         /\ id \in DOMAIN fsFile
         /\ fsFile[id].data # << >>)
    /\ \A i \in AckPositions(id) :
         \A j \in 1..(i - 1) :
           (rcvLog[j].kind = "delivered" /\ rcvLog[j].fileId = id) =>
             Len(rcvLog[j].artifact) = snd[id].size

\* The finalization of the transfer has run to the end of its finally block.
FinalizationEnded(id) ==
  /\ \E i \in 1..Len(rcvLog) :
       /\ rcvLog[i].kind \in {"delivered", "processing-error"}
       /\ rcvLog[i].fileId = id
  /\ \A f \in fin : f.fileId # id

\* C22: once the finalization of a transfer has ended, with or without an
\* error, the receiver holds nothing for its id: no key in the four refs and
\* no chunk row or metadata row in the chunk store.
C22_NothingKeptAfterFinalization ==
  \A id \in FileIds :
    FinalizationEnded(id) =>
      /\ id \notin DOMAIN fileMeta
      /\ id \notin DOMAIN receivedCount
      /\ id \notin fileWriter
      /\ id \notin DOMAIN isFinalizing
      /\ RowsOf(idbChunks, id) = {}
      /\ id \notin idbFiles

\* The positions of the log at which a finalization of id has ended, with a
\* delivery or with a processing error.
FinalizationEnds(id) ==
  {i \in 1..Len(rcvLog) :
     rcvLog[i].kind \in {"delivered", "processing-error"} /\ rcvLog[i].fileId = id}

\* C33: for every transfer id the receiver runs at most one finalization and
\* sends at most one transfer-complete-ack, also when it is given more chunk
\* frames than the metadata of the transfer declares.
C33_FinalizedOnce ==
  \A id \in {FileId(1), SecondId} :
    /\ Cardinality(FinalizationEnds(id)) <= 1
    /\ Cardinality(AckPositions(id)) <= 1

\* C34: when a finalization reads the chunks back or closes the writable, no
\* chunk handler of the transfer that took an earlier index is still
\* suspended in its write.
C34_FinalizeAfterAllWrites ==
  [][\A f \in fin, secondPickerChosen \in BOOLEAN :
       Finalize(f, secondPickerChosen) =>
         \A i \in 1..Len(writes) :
           writes[i].fileId = f.fileId => writes[i].index >= f.receivedChunks - 1]_vars

\* The bytes are bytes of the file that the sendFile call of id sends.
OwnBytes(id, data) ==
  \A i \in 1..Len(data) : (data[i] <= MaxFileSize) <=> (id = FileId(1))

\* C35: with two transfers on the channel, every chunk is counted for and
\* written into the sink of the transfer whose sendFile call sent it: the
\* suspended writes, the rows of the chunk store and the writable of a
\* transfer hold only bytes of that transfer, and no transfer counts more
\* chunks than its metadata declares.
C35_ChunksGoToOwnTransfer ==
  /\ \A i \in 1..Len(writes) : OwnBytes(writes[i].fileId, writes[i].data)
  /\ \A r \in idbChunks : OwnBytes(r.fileId, r.data)
  /\ \A id \in DOMAIN fsFile : OwnBytes(id, fsFile[id].data)
  /\ \A id \in DOMAIN receivedCount : receivedCount[id] <= fileMeta[id].chunks

(***************************************************************************)
(* Properties of the sender                                                *)
(***************************************************************************)
\* The step is one in which call c has sent a chunk with channel.send.
ChunkSent(c) == snd'[c].index = snd[c].index + 1

HighWaterMark == settings.chunkSize * BufferChunks

\* C7 as stated: immediately after every send of a chunk the amount buffered
\* in the file channel is at most the high-water mark of 16 chunk sizes.
C7_NeverAboveHighWater ==
  [][\A c \in Calls : ChunkSent(c) => bufferedAmount' <= HighWaterMark]_vars

\* C7 as amended: a chunk is sent only while the amount buffered is below the
\* high-water mark of 16 chunk sizes, so immediately after every send of a
\* chunk the amount is less than the mark plus one chunk size.
C7_BelowHighWaterBeforeSend ==
  [][\A c \in Calls :
       ChunkSent(c) => /\ bufferedAmount < HighWaterMark
                       /\ bufferedAmount' < HighWaterMark + settings.chunkSize]_vars

\* C7's case: the call has just sent a chunk and the amount buffered is
\* above the high-water mark.
C7_Witness ==
  \E c \in Calls :
    /\ snd[c].pc = "loop"
    /\ snd[c].index > 0
    /\ bufferedAmount > HighWaterMark

\* The call is in its chunk loop, suspended on backpressure, or waiting for
\* the acknowledgment.
InProgress(c) == snd[c].pc \in {"loop", "slice", "bp", "waitAck"}

\* C9: when the file channel closes while a sendFile is in progress, that
\* sendFile ends by reporting a failure, and it does not report the transfer
\* as completed.
C9_CloseEndsInFailure ==
  \A c \in Calls :
    [](readyState = "closed" /\ InProgress(c) =>
         /\ <>(snd[c].pc = "failed")
         /\ [](snd[c].pc # "completed"))

\* C10: once the file channel is closed, a sender suspended on backpressure
\* or in the wait for the acknowledgment settles with an error that is not the
\* expiry of the acknowledgment timer.
C10_SuspensionLeftOnClose ==
  \A c \in Calls :
    (readyState = "closed" /\ snd[c].pc \in {"bp", "waitAck"})
      ~> (snd[c].pc = "failed" /\ snd[c].error # "ACK timeout")

\* The bytes of chunk k (from 0) of a payload cut into chunks of chunkSize.
ChunkBytes(payload, k, chunkSize) ==
  [j \in 1..Min(chunkSize, Len(payload) - k * chunkSize) |-> payload[k * chunkSize + j]]

\* C26: the frames a sendFile call has put on the open channel are its
\* file-metadata frame followed by the chunks 0, 1, ... in ascending order,
\* each once; while a chunk is sliced or waits for the buffer every earlier
\* chunk, and no later one, has been handed to the channel; and the call
\* waits for the acknowledgment only when all totalChunks chunks are sent.
\* (In SpecBackpressure the receiver takes nothing off the wire.)
C26_MetadataThenChunksInOrder ==
  \A c \in Calls :
    (readyState = "open" /\ snd[c].pc \in {"loop", "slice", "bp", "waitAck", "failed"}) =>
      /\ Len(wire) = 1 + snd[c].index
      /\ wire[1] = MetadataFrame(c, snd[c])
      /\ \A k \in 0..(snd[c].index - 1) :
           wire[k + 2] = ChunkFrame(ChunkBytes(snd[c].payload, k, settings.chunkSize))
      /\ snd[c].index <= snd[c].totalChunks
      /\ snd[c].pc = "waitAck" => snd[c].index = snd[c].totalChunks

\* C26's case: a call has sent the metadata and all chunks of a file that is
\* larger than the send buffer, and waits for the acknowledgment.
C26_Witness ==
  \E c \in Calls :
    /\ readyState = "open"
    /\ snd[c].pc = "waitAck"
    /\ settings.chunkSize = 2
    /\ snd[c].totalChunks = BufferChunks + MaxExtraChunks
    /\ Len(wire) = 1 + snd[c].totalChunks
    /\ wire[Len(wire)].data = ChunkBytes(snd[c].payload, snd[c].totalChunks - 1, 2)

\* C30: when the compression of a sendFile call throws and the channel is
\* open, the call sends its file-metadata with compressed = false, with size
\* and compressedSize equal to the size of the file and with the chunk count
\* of the file as it is, and every chunk the call sends after that is a slice
\* of the bytes of the file.
C30_CompressionFailureFallsBack ==
  [][\A c \in Calls :
       /\ (Compressed(c, TRUE) /\ readyState = "open") =>
            /\ snd'[c].pc = "loop"
            /\ wire' = Append(wire, [type |-> "file-metadata", fileId |-> FileId(c),
                                     size |-> snd[c].size,
                                     chunks |-> Ceil(snd[c].size, settings.chunkSize),
                                     compressed |-> FALSE,
                                     compressedSize |-> snd[c].size])
       /\ (/\ ShownIn(senderMsgs, c, "Compressing file...")
           /\ snd[c].pc # "compressing"
           /\ ~snd[c].compressed
           /\ Len(wire') = Len(wire) + 1) =>
            wire'[Len(wire')] =
              ChunkFrame(ChunkBytes(Bytes(snd[c].size), snd[c].index, settings.chunkSize))]_vars

\* The call whose compression threw has sent a file of two chunks and more.
C30_Witness ==
  \E c \in Calls :
    /\ ShownIn(senderMsgs, c, "Compressing file...")
    /\ ~snd[c].compressed
    /\ snd[c].pc = "waitAck"
    /\ snd[c].size = MaxFileSize
    /\ snd[c].totalChunks = Ceil(MaxFileSize, settings.chunkSize)
    /\ snd[c].totalChunks >= 2
    /\ snd[c].index = snd[c].totalChunks

\* C36: on a channel that stays open, with every frame delivered and every
\* write accepted, a sendFile call that has sent its metadata eventually gets
\* the transfer-complete-ack of its id and ends as completed, whatever the
\* size of the file, 0 bytes included.
C36_EveryCallCompletes ==
  \A c \in Calls :
    (snd[c].pc \in {"loop", "slice", "bp", "waitAck"})
      ~> (snd[c].pc = "completed" /\ FileId(c) \in acksReceived)

(***************************************************************************)
(* Properties of the room table                                            *)
(***************************************************************************)
Members(r) == {rooms[r].users[i] : i \in 1..Len(rooms[r].users)}

\* C4 as stated: every room has 0, 1 or 2 members; a join-room of a
\* non-member for a room that holds two members is answered with room-full and
\* leaves the member list of the room as it was; a step seats at most one
\* socket in a room.
C4_FullRoomAlwaysRoomFull ==
  [][/\ \A r \in RoomIds : Len(rooms'[r].users) \in {0, 1, 2}
     /\ \A r \in RoomIds : Len(rooms'[r].users) <= Len(rooms[r].users) + 1
     /\ \A r \in RoomIds :
          Len(rooms[r].users) = 2 =>
            \A s \in Sockets \ Members(r), p \in PasswordInputs :
              JoinRoom(s, r, p) =>
                /\ emitted' = << Emit(s, "room-full", Null) >>
                /\ rooms'[r].users = rooms[r].users]_vars

\* C4 as amended: every room has 0, 1 or 2 members; a join-room of a
\* non-member for a room that holds two members leaves the member list of the
\* room as it was and is answered with room-full when its secret matches the
\* one of the room, with join-error when it does not; a step seats at most one
\* socket in a room, and a non-member that joins a room of one member with the
\* matching secret is seated behind that member.
C4_RoomCapacity ==
  [][/\ \A r \in RoomIds : Len(rooms'[r].users) \in {0, 1, 2}
     /\ \A r \in RoomIds : Len(rooms'[r].users) <= Len(rooms[r].users) + 1
     /\ \A r \in RoomIds :
          Len(rooms[r].users) = 2 =>
            \A s \in Sockets \ Members(r), p \in PasswordInputs :
              JoinRoom(s, r, p) =>
                /\ rooms'[r].users = rooms[r].users
                /\ emitted' = IF rooms[r].passwordHash = hashPassword(p)
                                 THEN << Emit(s, "room-full", Null) >>
                                 ELSE << Emit(s, "join-error", "Invalid password.") >>
     /\ \A r \in RoomIds :
          Len(rooms[r].users) = 1 =>
            \A s \in Sockets \ Members(r), p \in PasswordInputs :
              (rooms[r].passwordHash = hashPassword(p) /\ JoinRoom(s, r, p)) =>
                rooms'[r].users = Append(rooms[r].users, s)]_vars

\* C4's case: a third socket has just been answered room-full by a room that
\* holds two other members.
C4_Witness ==
  \E s \in Sockets, r \in RoomIds :
    /\ emitted = << Emit(s, "room-full", Null) >>
    /\ Len(rooms[r].users) = 2
    /\ s \notin Members(r)
    /\ \A q \in RoomIds : s \notin Members(q)

\* C14: the socket that joins a room that does not exist is seated first and
\* gets waiting-for-peer and joined-room with position 1; the socket that joins
\* a room of one other member (with the secret of the room) is seated second
\* and gets joined-room with position 2, while the member at index 0 gets
\* user-connected with the id of the joiner; the joiner gets no user-connected.
C14_FirstMemberInitiates ==
  [][\A r \in RoomIds :
       /\ ~rooms[r].exists =>
            \A s \in Sockets, p \in PasswordInputs :
              JoinRoom(s, r, p) =>
                /\ rooms'[r].users = << s >>
                /\ emitted' = << Emit(s, "waiting-for-peer", Null),
                                 Emit(s, "joined-room", <<r, 1>>) >>
       /\ Len(rooms[r].users) = 1 =>
            \A s \in Sockets \ Members(r), p \in PasswordInputs :
              (rooms[r].passwordHash = hashPassword(p) /\ JoinRoom(s, r, p)) =>
                /\ rooms'[r].users = << rooms[r].users[1], s >>
                /\ emitted' = << Emit(rooms[r].users[1], "user-connected", s),
                                 Emit(rooms[r].users[1], "joined-room", <<r, 1>>),
                                 Emit(s, "joined-room", <<r, 2>>) >>]_vars

\* C14's case: the second socket has just been seated behind the first and
\* the first one is the only one told that a peer has connected.
C14_Witness ==
  \E r \in RoomIds, u \in Sockets, s \in Sockets :
    /\ u # s
    /\ rooms[r].users = << u, s >>
    /\ emitted = << Emit(u, "user-connected", s),
                    Emit(u, "joined-room", <<r, 1>>),
                    Emit(s, "joined-room", <<r, 2>>) >>

\* C15: a join-room of a socket for the room it is seated in, with the secret
\* of that room, leaves the room table as it was and sends events to the
\* caller only.
C15_DuplicateJoinIdempotent ==
  [][\A r \in RoomIds :
       rooms[r].exists =>
         \A s \in Members(r), p \in PasswordInputs :
           (rooms[r].passwordHash = hashPassword(p) /\ JoinRoom(s, r, p)) =>
             /\ rooms' = rooms
             /\ \A i \in 1..Len(emitted') : emitted'[i].to = s]_vars

\* C16: when a member of room r sends leave-room for r, or disconnects, it is
\* taken out of the member list of r, the member left in r (if any) is sent
\* one user-disconnected with the id of the one that left, and r is deleted
\* exactly when nobody is left.
C16_DepartureRemovesMember ==
  [][\A r \in RoomIds :
       rooms[r].exists =>
         \A s \in Members(r) :
           (LeaveRoom(s, r) \/ Disconnect(s)) =>
             /\ s \notin {rooms'[r].users[i] : i \in 1..Len(rooms'[r].users)}
             /\ rooms'[r].exists <=> Members(r) # {s}
             /\ \A u \in Members(r) \ {s} :
                  Cardinality({i \in 1..Len(emitted') :
                                 emitted'[i] = Emit(u, "user-disconnected", s)}) = 1]_vars

\* C5: a join-room whose secret hashes to another value than the hash stored
\* for the existing room is answered with join-error and leaves the member
\* list of that room as it was; an empty or absent secret is accepted only by
\* a room whose stored hash is null.
C5_WrongSecretRejected ==
  [][\A r \in RoomIds :
       rooms[r].exists =>
         \A p \in PasswordInputs :
           rooms[r].passwordHash # hashPassword(p) =>
             \A s \in Sockets :
               JoinRoom(s, r, p) =>
                 /\ emitted' = << Emit(s, "join-error", "Invalid password.") >>
                 /\ rooms'[r].exists
                 /\ rooms'[r].users = rooms[r].users]_vars

\* C6: no socket id is in the member list of two rooms, or twice in one.
C6_OneRoomPerSocket ==
  \A s \in Sockets :
    /\ Cardinality({r \in RoomIds : s \in Members(r)}) <= 1
    /\ \A r \in RoomIds :
         Cardinality({i \in 1..Len(rooms[r].users) : rooms[r].users[i] = s}) <= 1

\* rooms.size, the activeRooms value of GET /health (server.js line 50)
ActiveRooms == Cardinality({r \in RoomIds : rooms[r].exists})

\* C23: a room is in the table exactly while it has a member: after every
\* handler, also one that rejected a join, no room of the table has an empty
\* member list, so activeRooms is the number of rooms with a member.
C23_RoomExistsWhileOccupied ==
  /\ \A r \in RoomIds : rooms[r].exists <=> Len(rooms[r].users) >= 1
  /\ ActiveRooms = Cardinality({r \in RoomIds : Len(rooms[r].users) >= 1})

\* C23's case: a socket that was alone in alpha asked for beta with a wrong
\* password; the join was rejected and alpha, now empty, has left the table.
C23_Witness ==
  \E s \in Sockets :
    /\ currentRoom[s] = "alpha"
    /\ ~rooms["alpha"].exists
    /\ rooms["beta"].exists
    /\ ~Includes(rooms["beta"].users, s)
    /\ emitted = << Emit(s, "join-error", "Invalid password.") >>
    /\ ActiveRooms = 1

\* C17: an offer, answer or ice-candidate of socket s is emitted only to
\* sockets other than s that are members of a room s is a member of; a socket
\* that is a member of no room causes no emission.
C17_RelayStaysInOwnRoom ==
  [][\A s \in Sockets, ev \in SignalEvents, roomId \in RoomIdInputs, hasPayload \in BOOLEAN :
       Relay(s, ev, roomId, hasPayload) =>
         \A i \in 1..Len(emitted') :
           /\ emitted'[i].to # s
           /\ \E r \in RoomIds : s \in Members(r) /\ emitted'[i].to \in Members(r)]_vars

\* C29: a socket whose disconnect has been handled is in the member list of
\* no room, whatever join-room and leave-room events it had sent before.
C29_NoMemberAfterDisconnect ==
  \A s \in Sockets :
    ~connected[s] => \A r \in RoomIds : ~Includes(rooms[r].users, s)

\* C32: a join-room of a socket seated in room A for another room B does to A
\* what a leave-room for A does: the socket is taken out of the member list of
\* A, the member left in A is sent user-disconnected with the id of the mover,
\* and A is deleted when nobody is left.
C32_MoveLeavesLikeLeaveRoom ==
  [][\A s \in Sockets, A \in RoomIds, B \in RoomIds, p \in PasswordInputs :
       (/\ A # B
        /\ currentRoom[s] = A
        /\ Includes(rooms[A].users, s)
        /\ JoinRoom(s, B, p)) =>
         LET left == RemoveMember(rooms, s, A)
         IN  /\ rooms'[A] = left.rooms[A]
             /\ \A i \in 1..Len(left.emitted) :
                  \E j \in 1..Len(emitted') : emitted'[j] = left.emitted[i]]_vars

\* The answer of a join-room that turned the caller away.
Rejected(events, s) ==
  \E i \in 1..Len(events) :
    /\ events[i].to = s
    /\ events[i].ev \in {"join-error", "room-full"}

\* C37: a join-room answered with join-error (invalid room name or wrong
\* secret) or with room-full leaves the room table as it was: every room keeps
\* its member list and its password hash, no room appears or disappears, and
\* the caller is still a member of the room it was in.
C37_RejectedJoinChangesNothing ==
  [][\A s \in Sockets, roomId \in RoomIdInputs, p \in PasswordInputs :
       (JoinRoom(s, roomId, p) /\ Rejected(emitted', s)) =>
         /\ rooms' = rooms
         /\ \A r \in RoomIds : Includes(rooms[r].users, s) => Includes(rooms'[r].users, s)]_vars

\* C38: the password hash of a room is the one its first join stored: no
\* handler changes the hash of a room that is in the table before and after
\* it, whoever joins and with whatever secret.
C38_HashFixedWhileRoomExists ==
  [][\A r \in RoomIds :
       (rooms[r].exists /\ rooms'[r].exists) =>
         rooms'[r].passwordHash = rooms[r].passwordHash]_vars

(***************************************************************************)
(* Properties of the chunk store                                           *)
(***************************************************************************)
\* C20: in the array that readAllChunksIndexedDB returns, the chunk stored
\* with index i is at index i (position i + 1 here), and every position that
\* holds a chunk is the index of a stored row: a missing index shifts nothing.
C20_ReadKeepsPositions ==
  \A k \in 1..Len(rcvLog) :
    rcvLog[k].kind = "read" =>
      /\ \A r \in rcvLog[k].rows :
           /\ r.index + 1 <= Len(rcvLog[k].chunks)
           /\ rcvLog[k].chunks[r.index + 1] = r.data
      /\ \A i \in 1..Len(rcvLog[k].chunks) :
           rcvLog[k].chunks[i] # Hole => \E r \in rcvLog[k].rows : r.index = i - 1

\* C31: deleteFileIndexedDB(id) leaves no chunk row and no metadata row of id,
\* and leaves the chunk rows and the metadata row of every other id as they
\* were.
C31_DeleteRemovesOneFile ==
  [][\A id \in StoreIds :
       DeleteFile(id) =>
         /\ RowsOf(idbChunks', id) = {}
         /\ id \notin idbFiles'
         /\ \A other \in StoreIds \ {id} :
              /\ RowsOf(idbChunks', other) = RowsOf(idbChunks, other)
              /\ other \in idbFiles' <=> other \in idbFiles]_vars

\* A deletion has removed two chunk rows and the metadata row of one transfer
\* while the store held two chunk rows and the metadata row of the other.
C31_Witness ==
  /\ rcvLog = << [kind |-> "deleted", fileId |-> FileId(1), rows |-> 2, meta |-> TRUE] >>
  /\ RowsOf(idbChunks, FileId(1)) = {}
  /\ FileId(1) \notin idbFiles
  /\ Cardinality(RowsOf(idbChunks, StaleId)) = 2
  /\ StaleId \in idbFiles

(***************************************************************************)
(* Properties of the pull variant                                          *)
(***************************************************************************)
\* The chunks of the file the sender holds, by index.
SentChunks(size) == [i \in 1..size |-> <<Bytes(size)[i]>>]

\* C18: answers delivered more than once do not change the artifact: every
\* file the receiver delivers holds, at every index, the chunk the sender has
\* at that index, with no index missing (size is the size of the file that the
\* metadata announced).
C18_DuplicateLeavesArtifact ==
  \A o \in pullOut : o.kind = "download" => o.chunks = SentChunks(o.size)

\* C19: the retry timer re-sends a registered request at most
\* CHUNK_REQUEST_MAX_RETRIES times.
C19_RetriesBounded ==
  \A i \in PullIndices : resent[i] <= CHUNK_REQUEST_MAX_RETRIES

\* The chunk indices of the file being received that its sink does not hold.
SinkMissing ==
  {i \in 0..(pullFileMeta.chunks - 1) :
     \A r \in (IF pullFileWriter THEN pullFsFile ELSE pullChunks) : r.index # i}

\* C24: a finalization that runs while the sink lacks an index of the file
\* sends no completion message and keeps the state of the transfer, and after
\* it a request is pending for every missing index.
C24_MissingIndexIsReRequested ==
  [][(PullFinalize /\ SinkMissing # {}) =>
       /\ requestWire' = SelectSeq(requestWire', LAMBDA m : m.type # "transfer-complete")
       /\ pullFileMeta' = pullFileMeta
       /\ pullReceivedCount' = pullReceivedCount
       /\ \A i \in SinkMissing : \E e \in pendingChunkRequests' : e.index = i]_vars

\* The frames the step has appended to the channel of the sender.
AddedFrames == SubSeq(chunkWire', Len(chunkWire) + 1, Len(chunkWire'))

\* The step sends nothing on the file channel, or the file-metadata, or a
\* chunk-meta frame and right after it the binary of the index that frame names.
AnswersInPairs ==
  Len(chunkWire') > Len(chunkWire) =>
    \/ Len(AddedFrames) = 1 /\ AddedFrames[1].type = "file-metadata"
    \/ /\ Len(AddedFrames) = 2
       /\ AddedFrames[1].type = "chunk-meta"
       /\ AddedFrames[2] = [type |-> "binary",
                            data |-> SentChunks(MaxPullSize)[AddedFrames[1].chunkIndex + 1]]

\* Every chunk in a sink of the receiver is the sender's chunk of that index.
StoredAtOwnIndex ==
  \A r \in pullFsFile \cup pullChunks :
    r.index < MaxPullSize /\ r.data = SentChunks(MaxPullSize)[r.index + 1]

\* C27: every step of the sender that puts frames on the file channel puts a
\* chunk-meta frame directly followed by the binary of the same index, also
\* while other requests are being served, and so the receiver stores every
\* binary at the index of the chunk it carries.
C27_MetaThenItsBinary == [][AnswersInPairs]_vars /\ []StoredAtOwnIndex

\* The chunk indices the sink of the transfer holds.
SinkIndices ==
  {r.index : r \in (IF pullFileWriter THEN pullFsFile ELSE pullChunks)}

\* C28: while a transfer is being received and no write is in progress, the
\* counter of received chunks is the number of distinct chunk indices written
\* to the sink: a chunk that arrives twice is counted once.
C28_CounterCountsDistinctIndices ==
  (pullFileMeta # NoMeta /\ pullWrites = << >>) =>
    pullReceivedCount = Cardinality(SinkIndices)

(***************************************************************************)
(* Properties of the names                                                 *)
(***************************************************************************)
\* C39: the name under which the receiver delivers a finished file is the
\* name declared in file-metadata, for every file name, with and without
\* compression, through the writable and through the download.
C39_DeliveredUnderDeclaredName ==
  \A i \in 1..Len(rcvLog) :
    rcvLog[i].kind = "delivered" => rcvLog[i].name = rcvLog[i].declared

====
